---- MODULE Spec2Model ----
(***************************************************************************)
(* Interface reconciliation of hierarchically refined bases on adjacent     *)
(* patches: gsMultiBasis::repairInterface, repairInterfaceFindElements and  *)
(* repairInterface2d of src/src/gsCore/gsMultiBasis.hpp.                    *)
(*                                                                         *)
(* Vectors and matrix rows of the code are tuples; the code's 0-based       *)
(* coordinate j is position j+1 of the tuple (At, Upd).  A std::vector of   *)
(* unsigned is a sequence.  Unsigned arithmetic is written with exact       *)
(* integers: a subtraction that would wrap shows up as a negative number.   *)
(***************************************************************************)
EXTENDS Integers, Sequences, FiniteSets, TLC

VARIABLES
    dim,            \* this->dim(): the dimension of the multibasis
    m_bases,        \* m_bases: patch -> hierarchical basis (its tree on the sides)
    bi,             \* the boundaryInterface the caller reconciles
    status,         \* "ok" while the program runs; after a fatal assertion, the
                    \* routine that has stopped and "aborted"
    last,           \* the routine of the last completed call: "none", "general", "2d"
    changed,        \* the value returned by the last completed call
    earlier,        \* "yes"/"no": a call before the last one returned true; "none": no such call
    refEltsFirst,   \* the requests of the last call for bi.first().patch (refElts0 in 2-D)
    refEltsSecond,  \* the requests of the last call for bi.second().patch (refElts1 in 2-D)
    merged,         \* the merged trace of the last call (iU, or intfcU with its start knots)
    calls,          \* the refineElements invocations of the last call: <<patch, list>>
    pre             \* m_bases at the entry of the last call

vars == <<dim, m_bases, bi, status, last, changed, earlier,
          refEltsFirst, refEltsSecond, merged, calls, pre>>

----------------------------------------------------------------------------
(* Bounds of the model *)

\* the finest refinement level of a boundary box in an initial state
MaxLevel == 2
\* the number of boundary boxes of the two sides of the interface together
MaxBoxes == 3

----------------------------------------------------------------------------
(* Unsigned helpers *)

Pow2(k) == 2 ^ k

\* x << k
ShL(x, k) == x * Pow2(k)

\* x >> k
ShR(x, k) == x \div Pow2(k)

Max(x, y) == IF x > y THEN x ELSE y

Min(x, y) == IF x < y THEN x ELSE y

\* v[j] and v[j] = x for the code's 0-based coordinate j
At(v, j) == v[j + 1]

Upd(v, j, x) == [v EXCEPT ![j + 1] = x]

\* GISMO_ASSERT(cond, message): the program stops when cond is false
Violated(cond) == ~cond

----------------------------------------------------------------------------
(* Sides: index 1..2d is west, east, south, north, front, back *)

\* boxSide::direction(): the axis normal to the side
direction(side) == (side - 1) \div 2

\* getBoxesOnSide: the boxes of the tree that touch the side, in the tree's order
getBoxesOnSide(bas, side) == bas.sideBoxes[side]

----------------------------------------------------------------------------
(* Level normalisation *)

\* the higher one of both index levels
\* a variant that takes a level above both index levels
indexLevelUseAbove(bas0, bas1) ==
    (IF bas0.indexLevel > bas1.indexLevel THEN bas0.indexLevel ELSE bas1.indexLevel) + 1

indexLevelUse(bas0, bas1) ==
    IF bas0.indexLevel > bas1.indexLevel THEN bas0.indexLevel ELSE bas1.indexLevel

\* the upper corner of a tree, w.r.t. level Lu: upperCorn[i] << indexLevelDiff
upperCornUse(bas, Lu) ==
    [i \in 1..Len(bas.upperCorner) |-> ShL(bas.upperCorner[i], Lu - bas.indexLevel)]

----------------------------------------------------------------------------
(* repairInterfaceFindElements<d>: reading the boxes of both sides *)

\* lo0(i,j), up0(i,j) << idxExponent for every row i and coordinate j
ReadFirst(bas0, side, Lu) ==
    LET bx == getBoxesOnSide(bas0, side)
        e  == Lu - bas0.maxInsLevel
    IN  [i \in 1..Len(bx) |->
            [lo    |-> [j \in 1..Len(bx[i].lo) |-> ShL(bx[i].lo[j], e)],
             up    |-> [j \in 1..Len(bx[i].up) |-> ShL(bx[i].up[j], e)],
             level |-> bx[i].level]]

\* a variant that reads the interval as it is
FlipReadNone(lo, up, upper) == <<lo, up>>

\* the flip of one interval when the orientation is not preserved:
\* tmp = upper - lo; lo = upper - up; up = tmp
FlipRead(lo, up, upper) == <<upper - up, upper - lo>>

\* the loop over jj of one row of the second side: shift coordinate
\* j = dirMap[jj], and flip it when dirOrient[jj] is false
RECURSIVE ReadSecondRow(_, _, _, _, _, _)
ReadSecondRow(row, jj, dirMap, dirOrient, e, upperCorn1) ==
    IF jj = Len(dirMap) THEN row
    ELSE LET j   == At(dirMap, jj)
             lo1 == ShL(At(row.lo, j), e)
             up1 == ShL(At(row.up, j), e)
             fl  == IF ~At(dirOrient, jj)
                    THEN FlipRead(lo1, up1, At(upperCorn1, j))
                    ELSE <<lo1, up1>>
         IN  ReadSecondRow([row EXCEPT !.lo = Upd(@, j, fl[1]),
                                       !.up = Upd(@, j, fl[2])],
                           jj + 1, dirMap, dirOrient, e, upperCorn1)

ReadSecond(bas1, side, Lu, dirMap, dirOrient, upperCorn1) ==
    LET bx == getBoxesOnSide(bas1, side)
        e  == Lu - bas1.maxInsLevel
    IN  [i \in 1..Len(bx) |-> ReadSecondRow(bx[i], 0, dirMap, dirOrient, e, upperCorn1)]

\* the coordinate directions a0, b0 which span the interface and c0 which
\* defines the side, from bi.first().direction(); b0 = a0 when d = 2
AxesFirst(dir, d) ==
    LET abc == CASE dir = 0 -> <<1, 2, 0>>
                 [] dir = 1 -> <<0, 2, 1>>
                 [] dir = 2 -> <<0, 1, 2>>
                 [] OTHER   -> <<99, 99, 99>>
    IN  [a |-> abc[1], b |-> IF d = 2 THEN abc[1] ELSE abc[2], c |-> abc[3]]

\* a variant that takes the axes of the first side for the second side
AxesSecondSame(ax0, dirMap) == ax0

\* a1 = dirMap[a0], b1 = dirMap[b0], c1 = dirMap[c0]
AxesSecond(ax0, dirMap) ==
    [a |-> At(dirMap, ax0.a), b |-> At(dirMap, ax0.b), c |-> At(dirMap, ax0.c)]

----------------------------------------------------------------------------
(* repairInterfaceFindElements<d>: the merged interface mesh iU *)

\* a variant of the overlap test that takes touching boxes too
OverlapOrTouch(r0, r1, ax0, ax1) ==
    /\ At(r0.lo, ax0.a) <= At(r1.up, ax1.a)
    /\ At(r0.lo, ax0.b) <= At(r1.up, ax1.b)
    /\ At(r1.lo, ax1.a) <= At(r0.up, ax0.a)
    /\ At(r1.lo, ax1.b) <= At(r0.up, ax0.b)

\* the overlap test of box r0 of the first side and box r1 of the second
Overlap(r0, r1, ax0, ax1) ==
    /\ At(r0.lo, ax0.a) < At(r1.up, ax1.a)
    /\ At(r0.lo, ax0.b) < At(r1.up, ax1.b)
    /\ At(r1.lo, ax1.a) < At(r0.up, ax0.a)
    /\ At(r1.lo, ax1.b) < At(r0.up, ax0.b)

\* a variant that takes the box of the first side for the overlap
OverlapBoxOfFirst(r0, r1, ax0, ax1) ==
    << At(r0.lo, ax0.a), At(r0.lo, ax0.b), At(r0.up, ax0.a), At(r0.up, ax0.b),
       r0.level, r1.level >>

\* the entry of iU of an overlapping pair
OverlapBox(r0, r1, ax0, ax1) ==
    << Max(At(r0.lo, ax0.a), At(r1.lo, ax1.a)),
       Max(At(r0.lo, ax0.b), At(r1.lo, ax1.b)),
       Min(At(r0.up, ax0.a), At(r1.up, ax1.a)),
       Min(At(r0.up, ax0.b), At(r1.up, ax1.b)),
       r0.level,
       r1.level >>

\* all pairings (i0, i1), i0 in the outer loop, the overlapping ones kept
MergeBoxes(rows0, rows1, ax0, ax1) ==
    LET n0 == Len(rows0)
        n1 == Len(rows1)
        pairs == [k \in 1..(n0 * n1) |-> <<((k - 1) \div n1) + 1, ((k - 1) % n1) + 1>>]
        Hit(p) == Overlap(rows0[p[1]], rows1[p[2]], ax0, ax1)
        hits == SelectSeq(pairs, Hit)
    IN  [k \in 1..Len(hits) |-> OverlapBox(rows0[hits[k][1]], rows1[hits[k][2]], ax0, ax1)]

----------------------------------------------------------------------------
(* repairInterfaceFindElements<d>: the refinement boxes *)

\* a variant with the extent [0,1] for every side
NormalSlabLow(refSideIndex, upperCornOnLevel) == <<0, 1>>

\* the extent normal to the side: [0,1] for west, south, front (odd side
\* index), [upperCornOnLevel-1, upperCornOnLevel] for east, north, back
NormalSlab(refSideIndex, upperCornOnLevel) ==
    IF refSideIndex % 2 = 1
    THEN <<0, 1>>
    ELSE <<upperCornOnLevel - 1, upperCornOnLevel>>

\* tmpvec after "store the new level" and "store the box": level Luse, the
\* box of iU pushed to level Luse on a (and b when d = 3), the slab on c
FillBox(tmpvec, seg, d, Lu, Luse, a, b, c, refSideIndex, upperCornOnLevel) ==
    LET sh   == Lu - Luse
        t0   == Upd(tmpvec, 0, Luse)
        t1   == Upd(Upd(t0, 1 + a, ShR(seg[1], sh)), 1 + d + a, ShR(seg[3], sh))
        t2   == IF d = 3
                THEN Upd(Upd(t1, 1 + b, ShR(seg[2], sh)), 1 + d + b, ShR(seg[4], sh))
                ELSE t1
        slab == NormalSlab(refSideIndex, upperCornOnLevel)
    IN  Upd(Upd(t2, 1 + c, slab[1]), 1 + d + c, slab[2])

\* a variant that leaves the coordinate of an emitted box as it is
FlipEmitNone(lo, up, upperCornOnLevel) == <<lo, up>>

\* a variant that mirrors the two ends without exchanging them
FlipEmitUnswapped(lo, up, upperCornOnLevel) == <<upperCornOnLevel - lo, upperCornOnLevel - up>>

\* the flip of one coordinate of an emitted box:
\* tmp = tmpvec[1+j]; tmpvec[1+j] = upper - tmpvec[1+d+j]; tmpvec[1+d+j] = upper - tmp
FlipEmit(lo, up, upperCornOnLevel) == <<upperCornOnLevel - up, upperCornOnLevel - lo>>

\* "if the orientation is changed, flip where necessary": the loop over jj
RECURSIVE FlipBack(_, _, _, _, _, _, _, _)
FlipBack(tmpvec, jj, d, c, dirMap, dirOrient, upperCorn1, sh) ==
    IF jj = d THEN tmpvec
    ELSE LET j  == At(dirMap, jj)
             fl == FlipEmit(At(tmpvec, 1 + j), At(tmpvec, 1 + d + j),
                            ShR(At(upperCorn1, j), sh))
             t  == IF j # c /\ ~At(dirOrient, jj)
                   THEN Upd(Upd(tmpvec, 1 + j, fl[1]), 1 + d + j, fl[2])
                   ELSE tmpvec
         IN  FlipBack(t, jj + 1, d, c, dirMap, dirOrient, upperCorn1, sh)

\* a variant that takes the finer side
RefineFiner(L0, L1) == L0 > L1

\* the side to refine for levels L0 # L1: the first when L0 < L1
RefineFirst(L0, L1) == L0 < L1

\* a variant that refines to the level of the coarser side
EmitBoxCoarse(tmpvec, seg, cx) ==
    LET L0 == seg[5]
        L1 == seg[6]
    IN  IF RefineFirst(L0, L1)
        THEN FillBox(tmpvec, seg, cx.d, cx.Lu, L0, cx.ax0.a, cx.ax0.b, cx.ax0.c,
                     cx.first.side,
                     ShR(At(cx.upperCorn0, cx.ax0.c), cx.Lu - L0))
        ELSE FlipBack(
                 FillBox(tmpvec, seg, cx.d, cx.Lu, L1, cx.ax1.a, cx.ax1.b, cx.ax1.c,
                         cx.second.side,
                         ShR(At(cx.upperCorn1, cx.ax1.c), cx.Lu - L1)),
                 0, cx.d, cx.ax1.c, cx.dirMap, cx.dirOrient, cx.upperCorn1,
                 cx.Lu - L1)

\* one pass of the loop over iU for an entry with L0 # L1: the new tmpvec
EmitBox(tmpvec, seg, cx) ==
    LET L0 == seg[5]
        L1 == seg[6]
    IN  IF RefineFirst(L0, L1)
        THEN FillBox(tmpvec, seg, cx.d, cx.Lu, L1, cx.ax0.a, cx.ax0.b, cx.ax0.c,
                     cx.first.side,
                     ShR(At(cx.upperCorn0, cx.ax0.c), cx.Lu - L1))
        ELSE FlipBack(
                 FillBox(tmpvec, seg, cx.d, cx.Lu, L0, cx.ax1.a, cx.ax1.b, cx.ax1.c,
                         cx.second.side,
                         ShR(At(cx.upperCorn1, cx.ax1.c), cx.Lu - L0)),
                 0, cx.d, cx.ax1.c, cx.dirMap, cx.dirOrient, cx.upperCorn1,
                 cx.Lu - L0)

\* a variant that puts every box found in front of the boxes found before
RECURSIVE EmitLoopInFront(_, _, _, _, _, _)
EmitLoopInFront(iU, i, tmpvec, first, second, cx) ==
    IF i > Len(iU) THEN [first |-> first, second |-> second]
    ELSE LET L0 == iU[i][5]
             L1 == iU[i][6]
         IN  IF L0 = L1 THEN EmitLoopInFront(iU, i + 1, tmpvec, first, second, cx)
             ELSE LET t == EmitBox(tmpvec, iU[i], cx)
                  IN  IF RefineFirst(L0, L1)
                      THEN EmitLoopInFront(iU, i + 1, t, t \o first, second, cx)
                      ELSE EmitLoopInFront(iU, i + 1, t, first, t \o second, cx)

\* the loop over iU: tmpvec lives across the passes, every box found is
\* appended to refEltsFirst or refEltsSecond
RECURSIVE EmitLoop(_, _, _, _, _, _)
EmitLoop(iU, i, tmpvec, first, second, cx) ==
    IF i > Len(iU) THEN [first |-> first, second |-> second]
    ELSE LET L0 == iU[i][5]
             L1 == iU[i][6]
         IN  IF L0 = L1 THEN EmitLoop(iU, i + 1, tmpvec, first, second, cx)
             ELSE LET t == EmitBox(tmpvec, iU[i], cx)
                  IN  IF RefineFirst(L0, L1)
                      THEN EmitLoop(iU, i + 1, t, first \o t, second, cx)
                      ELSE EmitLoop(iU, i + 1, t, first, second \o t, cx)

\* what repairInterfaceFindElements<d> reads before it merges
FindContext(d, b, bas0, bas1) ==
    LET Lu  == indexLevelUse(bas0, bas1)
        ax0 == AxesFirst(direction(b.first.side), d)
    IN  [d |-> d, Lu |-> Lu, first |-> b.first, second |-> b.second,
         dirMap |-> b.dirMap, dirOrient |-> b.dirOrient,
         upperCorn0 |-> upperCornUse(bas0, Lu),
         upperCorn1 |-> upperCornUse(bas1, Lu),
         ax0 |-> ax0, ax1 |-> AxesSecond(ax0, b.dirMap)]

\* repairInterfaceFindElements<d>( bi, refEltsFirst, refEltsSecond )
repairInterfaceFindElements(d, b, bases) ==
    LET bas0  == bases[b.first.patch]
        bas1  == bases[b.second.patch]
        cx    == FindContext(d, b, bas0, bas1)
        rows0 == ReadFirst(bas0, b.first.side, cx.Lu)
        rows1 == ReadSecond(bas1, b.second.side, cx.Lu, b.dirMap, b.dirOrient,
                            cx.upperCorn1)
        iU    == MergeBoxes(rows0, rows1, cx.ax0, cx.ax1)
        out   == EmitLoop(iU, 1, [k \in 1..(1 + 2 * d) |-> 0], <<>>, <<>>, cx)
    IN  [iU |-> iU, first |-> out.first, second |-> out.second,
         changed |-> (Len(out.first) > 0 \/ Len(out.second) > 0)]

----------------------------------------------------------------------------
(* gsHTensorBasis::refineElements on the boxes of the sides: a request      *)
(* (level, lower corner, upper corner), given in indices of its level,      *)
(* raises the level of the tree to that level on the box.                   *)

\* the flat list as requests <<level, lo, up>> of 1 + 2d entries each
Requests(elts, d) ==
    [k \in 1..(Len(elts) \div (1 + 2 * d)) |->
        LET o == (k - 1) * (1 + 2 * d)
        IN  [level |-> elts[o + 1],
             lo    |-> [j \in 1..d |-> elts[o + 1 + j]],
             up    |-> [j \in 1..d |-> elts[o + 1 + d + j]]]]

\* an index of level `from` as an index of level `to`
Rescale(x, from, to) == IF to >= from THEN ShL(x, to - from) ELSE ShR(x, from - to)

\* the axes that span a side with normal axis c, ascending
TangAxes(d, c) == SelectSeq([j \in 1..d |-> j - 1], LAMBDA j : j # c)

\* box cut by the request on the axes tang[k..]: the part inside gets the
\* level of the request, the parts outside keep the level of the box
RECURSIVE SplitBox(_, _, _, _, _, _)
SplitBox(box, tang, k, L, rlo, rup) ==
    IF k > Len(tang) THEN <<[box EXCEPT !.level = L]>>
    ELSE LET t      == tang[k]
             ilo    == Max(At(box.lo, t), At(rlo, t))
             iup    == Min(At(box.up, t), At(rup, t))
             left   == IF At(box.lo, t) < ilo
                       THEN <<[box EXCEPT !.up = Upd(@, t, ilo)]>> ELSE <<>>
             right  == IF iup < At(box.up, t)
                       THEN <<[box EXCEPT !.lo = Upd(@, t, iup)]>> ELSE <<>>
             center == [box EXCEPT !.lo = Upd(@, t, ilo), !.up = Upd(@, t, iup)]
         IN  left \o SplitBox(center, tang, k + 1, L, rlo, rup) \o right

\* the request meets the box on every axis that spans the side
MeetsBox(box, tang, rlo, rup) ==
    \A k \in 1..Len(tang) :
        /\ At(box.lo, tang[k]) < At(rup, tang[k])
        /\ At(rlo, tang[k]) < At(box.up, tang[k])

RECURSIVE RefineBoxes(_, _, _, _, _, _)
RefineBoxes(boxes, i, tang, L, rlo, rup) ==
    IF i > Len(boxes) THEN <<>>
    ELSE (IF boxes[i].level < L /\ MeetsBox(boxes[i], tang, rlo, rup)
          THEN SplitBox(boxes[i], tang, 1, L, rlo, rup)
          ELSE <<boxes[i]>>)
         \o RefineBoxes(boxes, i + 1, tang, L, rlo, rup)

\* the request box lies on the side (its slab touches the side)
TouchesSide(side, c, rlo, rup, upper) ==
    /\ At(rlo, c) < At(rup, c)
    /\ IF side % 2 = 1 THEN At(rlo, c) = 0 ELSE At(rup, c) = At(upper, c)

\* one request applied to a tree
insertBox(bas, req) ==
    LET d      == Len(bas.upperCorner)
        newMax == Max(bas.maxInsLevel, req.level)
        rlo    == [j \in 1..d |-> Rescale(req.lo[j], req.level, newMax)]
        rup    == [j \in 1..d |-> Rescale(req.up[j], req.level, newMax)]
        upper  == [j \in 1..d |-> Rescale(bas.upperCorner[j], bas.indexLevel, newMax)]
        Scaled(bx) == [i \in 1..Len(bx) |->
                         [lo    |-> [j \in 1..d |-> Rescale(bx[i].lo[j], bas.maxInsLevel, newMax)],
                          up    |-> [j \in 1..d |-> Rescale(bx[i].up[j], bas.maxInsLevel, newMax)],
                          level |-> bx[i].level]]
    IN  [bas EXCEPT
            !.maxInsLevel = newMax,
            !.sideBoxes = [s \in DOMAIN bas.sideBoxes |->
                IF direction(s) < d /\ TouchesSide(s, direction(s), rlo, rup, upper)
                THEN RefineBoxes(Scaled(bas.sideBoxes[s]), 1,
                                 TangAxes(d, direction(s)), req.level, rlo, rup)
                ELSE Scaled(bas.sideBoxes[s])]]

RECURSIVE ApplyRequests(_, _, _)
ApplyRequests(bas, reqs, i) ==
    IF i > Len(reqs) THEN bas
    ELSE ApplyRequests(insertBox(bas, reqs[i]), reqs, i + 1)

\* m_bases[patch]->refineElements( elts )
refineElements(bas, elts) ==
    ApplyRequests(bas, Requests(elts, Len(bas.upperCorner)), 1)

----------------------------------------------------------------------------
(* repairInterface2d: the knot spans of both sides *)

\* gsMatrix::sortByColumn(0): the rows in ascending order of their first entry
RECURSIVE SortByColumn0(_)
SortByColumn0(rows) ==
    IF Len(rows) <= 1 THEN rows
    ELSE LET m    == CHOOSE i \in 1..Len(rows) :
                        /\ \A k \in 1..Len(rows) : rows[i][1] <= rows[k][1]
                        /\ \A k \in 1..(i - 1) : rows[k][1] # rows[i][1]
             rest == [k \in 1..(Len(rows) - 1) |-> IF k < m THEN rows[k] ELSE rows[k + 1]]
         IN  <<rows[m]>> \o SortByColumn0(rest)

\* intfc(i,0) = lo(i,dir) << idxExponent; intfc(i,1) = up(i,dir) << idxExponent;
\* intfc(i,2) = level[i]
KnotSpans(bas, side, dir, Lu) ==
    LET bx == getBoxesOnSide(bas, side)
        e  == Lu - bas.maxInsLevel
    IN  [i \in 1..Len(bx) |->
            <<ShL(At(bx[i].lo, dir), e), ShL(At(bx[i].up, dir), e), bx[i].level>>]

\* a variant that leaves the knot indices as they are
FlipKnotsNone(rows, upper) == rows

\* "flip the knot indices": tmp = upper - intfc1(i,1);
\* intfc1(i,1) = upper - intfc1(i,0); intfc1(i,0) = tmp
FlipKnots(rows, upper) ==
    [i \in 1..Len(rows) |-> <<upper - rows[i][2], upper - rows[i][1], rows[i][3]>>]

\* a variant that moves the cursor of the first side alone when both spans
\* end at the same knot
RECURSIVE MergeKnotsTieFirst(_, _, _, _)
MergeKnotsTieFirst(intfc0, intfc1, i0, i1) ==
    IF ~(i0 <= Len(intfc0) /\ i1 <= Len(intfc1)) THEN <<>>
    ELSE IF intfc0[i0][2] > intfc1[i1][2]
         THEN <<<<intfc1[i1][2], intfc0[i0][3], intfc1[i1][3]>>>>
              \o MergeKnotsTieFirst(intfc0, intfc1, i0, i1 + 1)
         ELSE <<<<intfc0[i0][2], intfc0[i0][3], intfc1[i1][3]>>>>
              \o MergeKnotsTieFirst(intfc0, intfc1, i0 + 1, i1)

\* a variant that pushes the span twice when both spans end at the same knot
RECURSIVE MergeKnotsTieTwice(_, _, _, _)
MergeKnotsTieTwice(intfc0, intfc1, i0, i1) ==
    IF ~(i0 <= Len(intfc0) /\ i1 <= Len(intfc1)) THEN <<>>
    ELSE IF intfc0[i0][2] = intfc1[i1][2]
         THEN <<<<intfc0[i0][2], intfc0[i0][3], intfc1[i1][3]>>,
                <<intfc0[i0][2], intfc0[i0][3], intfc1[i1][3]>>>>
              \o MergeKnotsTieTwice(intfc0, intfc1, i0 + 1, i1 + 1)
         ELSE IF intfc0[i0][2] > intfc1[i1][2]
              THEN <<<<intfc1[i1][2], intfc0[i0][3], intfc1[i1][3]>>>>
                   \o MergeKnotsTieTwice(intfc0, intfc1, i0, i1 + 1)
              ELSE <<<<intfc0[i0][2], intfc0[i0][3], intfc1[i1][3]>>>>
                   \o MergeKnotsTieTwice(intfc0, intfc1, i0 + 1, i1)

\* "Merge the knot spans from both sides into intfcU": <<end knot, level on
\* first(), level on second()>>
RECURSIVE MergeKnots(_, _, _, _)
MergeKnots(intfc0, intfc1, i0, i1) ==
    IF ~(i0 <= Len(intfc0) /\ i1 <= Len(intfc1)) THEN <<>>
    ELSE IF intfc0[i0][2] = intfc1[i1][2]
         THEN <<<<intfc0[i0][2], intfc0[i0][3], intfc1[i1][3]>>>>
              \o MergeKnots(intfc0, intfc1, i0 + 1, i1 + 1)
         ELSE IF intfc0[i0][2] > intfc1[i1][2]
              THEN <<<<intfc1[i1][2], intfc0[i0][3], intfc1[i1][3]>>>>
                   \o MergeKnots(intfc0, intfc1, i0, i1 + 1)
              ELSE <<<<intfc0[i0][2], intfc0[i0][3], intfc1[i1][3]>>>>
                   \o MergeKnots(intfc0, intfc1, i0 + 1, i1)

----------------------------------------------------------------------------
(* repairInterface2d: the refinement boxes *)

\* the four entries pushed after the level, by the switch on the side index;
\* <<>> for the default case
SideBox2d(sideIndex, knot0L, knot1L, upperCornOnLevel) ==
    CASE sideIndex = 1 -> <<0, knot0L, 1, knot1L>>
      [] sideIndex = 2 -> <<At(upperCornOnLevel, 0) - 1, knot0L,
                            At(upperCornOnLevel, 0), knot1L>>
      [] sideIndex = 3 -> <<knot0L, 0, knot1L, 1>>
      [] sideIndex = 4 -> <<knot0L, At(upperCornOnLevel, 1) - 1,
                            knot1L, At(upperCornOnLevel, 1)>>
      [] OTHER -> <<>>

\* a variant that takes the knots of intfcU as they are
KnotsSecond2dRaw(knot0, knot1, orientPreserv, upper, sh) == <<ShR(knot0, sh), ShR(knot1, sh)>>

\* the knots of a box for second(): flipped on level indexLevelUse when the
\* orientation is not preserved, then pushed to level L0
KnotsSecond2d(knot0, knot1, orientPreserv, upper, sh) ==
    LET k0 == IF ~orientPreserv THEN upper - knot1 ELSE knot0
        k1 == IF ~orientPreserv THEN upper - knot0 ELSE knot1
    IN  <<ShR(k0, sh), ShR(k1, sh)>>

\* a variant without the assertions of the default cases: the level stays
\* in the list without a box
RECURSIVE EmitLoop2dNoAssert(_, _, _, _, _, _)
EmitLoop2dNoAssert(intfcU, i, knot1, refElts0, refElts1, cx) ==
    IF i > Len(intfcU) THEN [first |-> refElts0, second |-> refElts1, ok |-> TRUE]
    ELSE LET knot0 == knot1
             knotE == intfcU[i][1]
             L0    == intfcU[i][2]
             L1    == intfcU[i][3]
         IN  IF L0 < L1
             THEN LET sh  == cx.Lu - L1
                      box == SideBox2d(cx.first.side, ShR(knot0, sh), ShR(knotE, sh),
                                       [j \in 1..2 |-> ShR(cx.upperCorn0[j], sh)])
                  IN  EmitLoop2dNoAssert(intfcU, i + 1, knotE,
                                         refElts0 \o <<L1>> \o box, refElts1, cx)
             ELSE IF L0 > L1
             THEN LET sh  == cx.Lu - L0
                      kn  == KnotsSecond2d(knot0, knotE, cx.orientPreserv,
                                           At(cx.upperCorn1, cx.dir1), sh)
                      box == SideBox2d(cx.second.side, kn[1], kn[2],
                                       [j \in 1..2 |-> ShR(cx.upperCorn1[j], sh)])
                  IN  EmitLoop2dNoAssert(intfcU, i + 1, knotE,
                                         refElts0, refElts1 \o <<L0>> \o box, cx)
             ELSE EmitLoop2dNoAssert(intfcU, i + 1, knotE, refElts0, refElts1, cx)

\* the loop over intfcU; ok is false when the default case of a switch is met
RECURSIVE EmitLoop2d(_, _, _, _, _, _)
EmitLoop2d(intfcU, i, knot1, refElts0, refElts1, cx) ==
    IF i > Len(intfcU) THEN [first |-> refElts0, second |-> refElts1, ok |-> TRUE]
    ELSE LET knot0 == knot1
             knotE == intfcU[i][1]
             L0    == intfcU[i][2]
             L1    == intfcU[i][3]
         IN  IF L0 < L1
             THEN LET sh  == cx.Lu - L1
                      box == SideBox2d(cx.first.side, ShR(knot0, sh), ShR(knotE, sh),
                                       [j \in 1..2 |-> ShR(cx.upperCorn0[j], sh)])
                  IN  IF Violated(box # <<>>)
                      THEN [first |-> refElts0 \o <<L1>>, second |-> refElts1, ok |-> FALSE]
                      ELSE EmitLoop2d(intfcU, i + 1, knotE,
                                      refElts0 \o <<L1>> \o box, refElts1, cx)
             ELSE IF L0 > L1
             THEN LET sh  == cx.Lu - L0
                      kn  == KnotsSecond2d(knot0, knotE, cx.orientPreserv,
                                           At(cx.upperCorn1, cx.dir1), sh)
                      box == SideBox2d(cx.second.side, kn[1], kn[2],
                                       [j \in 1..2 |-> ShR(cx.upperCorn1[j], sh)])
                  IN  IF Violated(box # <<>>)
                      THEN [first |-> refElts0, second |-> refElts1 \o <<L0>>, ok |-> FALSE]
                      ELSE EmitLoop2d(intfcU, i + 1, knotE,
                                      refElts0, refElts1 \o <<L0>> \o box, cx)
             ELSE EmitLoop2d(intfcU, i + 1, knotE, refElts0, refElts1, cx)

\* what repairInterface2d reads before it merges
Context2d(b, bas0, bas1) ==
    LET Lu   == indexLevelUse(bas0, bas1)
        dir0 == (direction(b.first.side) + 1) % 2
        dir1 == (direction(b.second.side) + 1) % 2
    IN  [Lu |-> Lu, first |-> b.first, second |-> b.second,
         dir0 |-> dir0, dir1 |-> dir1,
         orientPreserv |-> At(b.dirOrient, dir0),
         upperCorn0 |-> upperCornUse(bas0, Lu),
         upperCorn1 |-> upperCornUse(bas1, Lu)]

\* the sorted knot spans of first() and (flipped if necessary) of second()
Intfc0(b, bas0, cx) == SortByColumn0(KnotSpans(bas0, b.first.side, cx.dir0, cx.Lu))

Intfc1(b, bas1, cx) ==
    LET rows == KnotSpans(bas1, b.second.side, cx.dir1, cx.Lu)
    IN  SortByColumn0(IF ~cx.orientPreserv
                      THEN FlipKnots(rows, At(cx.upperCorn1, cx.dir1))
                      ELSE rows)

\* a variant without the comparison of the end knots
SameEndAny(intfc0, intfc1) == TRUE

\* the end knots of the last spans of both sides agree
SameEnd(intfc0, intfc1) == intfc0[Len(intfc0)][2] = intfc1[Len(intfc1)][2]

----------------------------------------------------------------------------
(* The initial states: two patches with hierarchical bases that share an    *)
(* interface, and a third patch away from it.  The two sides of the         *)
(* interface have the same extent; each is a mesh of boxes, every box of    *)
(* level l with its corners on the grid of level l.                         *)

\* the dimensions of a multibasis without an implementation
OtherDims == {1, 4}

\* the index levels of <<first patch, second patch>>, for finest level M
IndexLevels(M) == {<<M, M>>, <<M + 1, M>>, <<M, M + 1>>}

\* x is a knot of level l, in indices of level M
OnGrid(x, l, M) == x % Pow2(M - l) = 0

\* the levels a box with these corners can have
BoxLevels(lo, up, M) ==
    {l \in 0..M : \A t \in 1..Len(lo) : OnGrid(lo[t], l, M) /\ OnGrid(up[t], l, M)}

\* the meshes of at most k boxes on the box [lo, up] of a side, in indices
\* of level M: one box, or a cut and a mesh on either part
RECURSIVE Meshes(_, _, _, _)
Meshes(lo, up, k, M) ==
    IF k = 0 THEN {}
    ELSE {<<[lo |-> lo, up |-> up, level |-> l]>> : l \in BoxLevels(lo, up, M)}
         \cup UNION { UNION { UNION {
                {x \o y : x \in Meshes(lo, [up EXCEPT ![t] = p], k1, M),
                          y \in Meshes([lo EXCEPT ![t] = p], up, k - k1, M)}
              : k1 \in 1..(k - 1)} : p \in (lo[t] + 1)..(up[t] - 1)} : t \in 1..Len(lo)}

\* the meshes of a side with n coarsest elements on each of its T axes
SideMeshes(T, n, k, M) ==
    Meshes([t \in 1..T |-> 0], [t \in 1..T |-> n * Pow2(M)], k, M)

\* the meshes of the two sides of a 2-D interface: MaxBoxes boxes at most
MeshPairs2 ==
    LET ms == SideMeshes(1, 1, MaxBoxes - 1, MaxLevel)
    IN  {p \in ms \X ms : Len(p[1]) + Len(p[2]) <= MaxBoxes}

\* the meshes of the two sides of a 3-D interface, one level less deep: a
\* side is one box or one box cut in two, and one side at most is cut
MeshPairs3 ==
    LET ms == SideMeshes(2, 1, 2, MaxLevel - 1)
    IN  {p \in ms \X ms : Len(p[1]) = 1 \/ Len(p[2]) = 1}

MaxOf(S) == CHOOSE x \in S : \A y \in S : y <= x

\* the tree of a patch whose side `side` carries mesh (in indices of level
\* M): the boxes in indices of level maxInsLevel, the upper corner in
\* indices of level indexLevel
MkTree(d, side, mesh, M, n, nNormal, idx) ==
    LET c      == direction(side)
        maxIns == MaxOf({mesh[i].level : i \in 1..Len(mesh)})
        down   == M - maxIns
        T(j)   == IF j < c THEN j + 1 ELSE j
        w(i)   == Pow2(maxIns - mesh[i].level)
        U      == nNormal * Pow2(maxIns)
        Lo(i, j) == IF j = c THEN (IF side % 2 = 1 THEN 0 ELSE U - w(i))
                    ELSE ShR(mesh[i].lo[T(j)], down)
        Up(i, j) == IF j = c THEN (IF side % 2 = 1 THEN w(i) ELSE U)
                    ELSE ShR(mesh[i].up[T(j)], down)
    IN  [indexLevel  |-> idx,
         maxInsLevel |-> maxIns,
         upperCorner |-> [j \in 1..d |-> ShL(IF j - 1 = c THEN nNormal ELSE n, idx)],
         sideBoxes   |-> (side :> [i \in 1..Len(mesh) |->
                             [lo |-> [j \in 1..d |-> Lo(i, j - 1)],
                              up |-> [j \in 1..d |-> Up(i, j - 1)],
                              level |-> mesh[i].level]])]

\* the interfaces of two sides: dirMap is a permutation of the axes that
\* maps the normal axis of the first side to that of the second
Interfaces(d) ==
    {b \in [first : {[patch |-> 0, side |-> s] : s \in 1..(2 * d)},
            second : {[patch |-> 1, side |-> s] : s \in 1..(2 * d)},
            dirMap : {q \in [1..d -> 0..(d - 1)] : \A x, y \in 1..d : q[x] = q[y] => x = y},
            dirOrient : [1..d -> BOOLEAN]] :
        /\ At(b.dirMap, direction(b.first.side)) = direction(b.second.side)
        /\ At(b.dirOrient, direction(b.first.side))
              = (b.first.side % 2 = b.second.side % 2)}

Interfaces2 == Interfaces(2)

Interfaces3 == Interfaces(3)

\* one box of level l on the whole side
OneBox(d, l, M) ==
    <<[lo |-> [t \in 1..(d - 1) |-> 0], up |-> [t \in 1..(d - 1) |-> Pow2(M)], level |-> l]>>

\* the bases of the three patches: the first patch has one coarsest element
\* across the interface, the second has two
Bases(d, b, m0, m1, M, n, idx) ==
    (0 :> MkTree(d, b.first.side, m0, M, n[1], 1, idx[1]))
    @@ (1 :> MkTree(d, b.second.side, m1, M, n[2], 2, idx[2]))
    @@ (2 :> MkTree(d, 1, OneBox(d, 0, M), M, 1, 1, M))

\* the mesh of the second side that lies across mesh m0 of the first side
\* (both in indices of level M, the sides N indices long): axis a of the
\* first side is axis dirMap[a] of the second, mirrored when dirOrient[a]
\* is false
MeshAcross(m0, b, d, N) ==
    LET c0    == direction(b.first.side)
        c1    == direction(b.second.side)
        tang0 == TangAxes(d, c0)
        tang1 == TangAxes(d, c1)
        From(k1) == CHOOSE k \in 1..Len(tang0) : At(b.dirMap, tang0[k]) = tang1[k1]
        Keeps(k1) == At(b.dirOrient, tang0[From(k1)])
    IN  [i \in 1..Len(m0) |->
            [lo |-> [k1 \in 1..Len(tang1) |->
                        IF Keeps(k1) THEN m0[i].lo[From(k1)] ELSE N - m0[i].up[From(k1)]],
             up |-> [k1 \in 1..Len(tang1) |->
                        IF Keeps(k1) THEN m0[i].up[From(k1)] ELSE N - m0[i].lo[From(k1)]],
             level |-> m0[i].level]]

\* a 2-D interface, conforming or not
Init2 ==
    \E b \in Interfaces2 : \E p \in MeshPairs2 : \E idx \in IndexLevels(MaxLevel) :
        /\ dim = 2
        /\ bi = b
        /\ m_bases = Bases(2, b, p[1], p[2], MaxLevel, <<1, 1>>, idx)

\* the boxes of a mesh in the opposite order
Reverse(mesh) == [i \in 1..Len(mesh) |-> mesh[Len(mesh) + 1 - i]]

\* a 2-D interface whose trees return the boxes of a side from right to left
Init2Reversed ==
    \E b \in Interfaces2 : \E p \in MeshPairs2 :
        /\ dim = 2
        /\ bi = b
        /\ m_bases = Bases(2, b, Reverse(p[1]), Reverse(p[2]), MaxLevel, <<1, 1>>,
                           <<MaxLevel + 1, MaxLevel>>)

\* a 2-D interface that conforms: the same mesh on both sides
Init2Conforming ==
    \E b \in Interfaces2 : \E m0 \in SideMeshes(1, 1, MaxBoxes - 1, MaxLevel) :
    \E idx \in IndexLevels(MaxLevel) :
        /\ dim = 2
        /\ bi = b
        /\ m_bases = Bases(2, b, m0, MeshAcross(m0, b, 2, Pow2(MaxLevel)), MaxLevel,
                           <<1, 1>>, idx)

\* a 3-D interface, conforming or not
Init3 ==
    \E b \in Interfaces3 : \E p \in MeshPairs3 :
        /\ dim = 3
        /\ bi = b
        /\ m_bases = Bases(3, b, p[1], p[2], MaxLevel - 1, <<1, 1>>,
                           <<MaxLevel, MaxLevel + 1>>)

\* a 3-D interface that conforms
Init3Conforming ==
    \E b \in Interfaces3 : \E m0 \in SideMeshes(2, 1, 2, MaxLevel - 1) :
        /\ dim = 3
        /\ bi = b
        /\ m_bases = Bases(3, b, m0, MeshAcross(m0, b, 3, Pow2(MaxLevel - 1)),
                           MaxLevel - 1, <<1, 1>>, <<MaxLevel + 1, MaxLevel>>)

\* the numbers of coarsest elements along the interface of <<first patch,
\* second patch>>: equal, or not
ElementsAlong == {<<1, 1>>, <<1, 2>>, <<2, 1>>}

\* the meshes of the two sides of a 2-D interface one level less deep, the
\* sides n[1] and n[2] coarsest elements long
MeshPairsAlong(n) ==
    {p \in SideMeshes(1, n[1], MaxBoxes - 1, MaxLevel - 1)
           \X SideMeshes(1, n[2], MaxBoxes - 1, MaxLevel - 1) :
        Len(p[1]) + Len(p[2]) <= MaxBoxes}

\* a 2-D interface whose sides need not have the same length
Init2Extent ==
    \E b \in Interfaces2 : \E n \in ElementsAlong : \E p \in MeshPairsAlong(n) :
    \E idx \in IndexLevels(MaxLevel) :
        /\ dim = 2
        /\ bi = b
        /\ m_bases = Bases(2, b, p[1], p[2], MaxLevel - 1, n, idx)

\* the tree of a 2-D patch for a side of any index: for an index that is
\* not a side of a 2-D patch the tree answers with the boxes of some side
\* along axis 1, the axis repairInterface2d reads for it
TreeOn(side, mesh, M, nNormal, idx) ==
    IF side \in 1..4 THEN MkTree(2, side, mesh, M, 1, nNormal, idx)
    ELSE LET t == MkTree(2, 1, mesh, M, 1, nNormal, idx)
         IN  [t EXCEPT !.sideBoxes = (side :> t.sideBoxes[1])]

\* the 2-D interfaces with a side index that is not a side of a 2-D patch
InterfacesUnmapped ==
    {b \in [first : {[patch |-> 0, side |-> s] : s \in 1..6},
            second : {[patch |-> 1, side |-> s] : s \in 1..6},
            dirMap : {q \in [1..2 -> 0..1] : q[1] # q[2]},
            dirOrient : [1..2 -> BOOLEAN]] :
        b.first.side > 4 \/ b.second.side > 4}

\* a 2-D multibasis with such an interface
Init2Unmapped ==
    \E b \in InterfacesUnmapped : \E p \in MeshPairs2 : \E idx \in IndexLevels(MaxLevel) :
        /\ dim = 2
        /\ bi = b
        /\ m_bases = (0 :> TreeOn(b.first.side, p[1], MaxLevel, 1, idx[1]))
                      @@ (1 :> TreeOn(b.second.side, p[2], MaxLevel, 2, idx[2]))
                      @@ (2 :> MkTree(2, 1, OneBox(2, 0, MaxLevel), MaxLevel, 1, 1, MaxLevel))

\* a topology of three 2-D patches with two interfaces at a corner of patch
\* 1: its east side meets the west side of patch 0, its south side the north
\* side of patch 2; both interfaces keep the orientation along the side
Topology ==
    << [first |-> [patch |-> 0, side |-> 1], second |-> [patch |-> 1, side |-> 2],
        dirMap |-> <<0, 1>>, dirOrient |-> <<FALSE, TRUE>>],
       [first |-> [patch |-> 1, side |-> 3], second |-> [patch |-> 2, side |-> 4],
        dirMap |-> <<0, 1>>, dirOrient |-> <<TRUE, FALSE>>] >>

\* the tree of a square patch of level l everywhere, with its east and its
\* south side
CornerTree(l, M, idx) ==
    [MkTree(2, 2, OneBox(2, l, M), M, 1, 1, idx) EXCEPT
        !.sideBoxes = @ @@ MkTree(2, 3, OneBox(2, l, M), M, 1, 1, idx).sideBoxes]

\* the multibasis of the topology: patch 1 of one level, the sides of the
\* patches 0 and 2 any meshes
InitTopology ==
    \E m0 \in SideMeshes(1, 1, MaxBoxes - 1, MaxLevel) :
    \E m2 \in SideMeshes(1, 1, MaxBoxes - 1, MaxLevel) :
    \E l \in 0..MaxLevel : \E idx \in {MaxLevel, MaxLevel + 1} :
        /\ dim = 2
        /\ bi = Topology[1]
        /\ m_bases = (0 :> MkTree(2, 1, m0, MaxLevel, 1, 1, MaxLevel))
                      @@ (1 :> CornerTree(l, MaxLevel, idx))
                      @@ (2 :> MkTree(2, 4, m2, MaxLevel, 1, 1, MaxLevel))

\* a multibasis of another dimension
InitOther ==
    \E d \in OtherDims : \E l0 \in 0..MaxLevel, l1 \in 0..MaxLevel :
    \E idx \in IndexLevels(MaxLevel) :
        /\ dim = d
        /\ bi = [first |-> [patch |-> 0, side |-> 2], second |-> [patch |-> 1, side |-> 1],
                 dirMap |-> [j \in 1..d |-> j - 1], dirOrient |-> [j \in 1..d |-> TRUE]]
        /\ m_bases = Bases(d, bi, OneBox(d, l0, MaxLevel), OneBox(d, l1, MaxLevel),
                           MaxLevel, <<1, 1>>, idx)

\* the program before the first call
Fresh ==
    /\ status = "ok"
    /\ last = "none"
    /\ changed = FALSE
    /\ earlier = "none"
    /\ refEltsFirst = <<>>
    /\ refEltsSecond = <<>>
    /\ merged = <<>>
    /\ calls = <<>>
    /\ pre = m_bases

Init == (Init2 \/ Init2Reversed \/ Init2Conforming \/ Init3 \/ Init3Conforming \/ InitOther) /\ Fresh

----------------------------------------------------------------------------
(* The operations *)

\* the program after a fatal assertion of routine: nothing else has changed
Abort(routine) ==
    /\ status' = routine \o " aborted"
    /\ UNCHANGED <<dim, m_bases, bi, last, changed, earlier,
                   refEltsFirst, refEltsSecond, merged, calls, pre>>

\* a variant that invokes refineElements on both sides, whatever their lists
RefineCallsBothSides(b, ch, first, second) ==
    IF ch THEN <<<<b.first.patch, first>>, <<b.second.patch, second>>>> ELSE <<>>

\* "if any found, refine the bases accordingly": the refineElements
\* invocations <<patch, list>>, in their order
RefineCalls(b, ch, first, second) ==
    (IF ch /\ Len(first) > 0 THEN <<<<b.first.patch, first>>>> ELSE <<>>)
    \o (IF ch /\ Len(second) > 0 THEN <<<<b.second.patch, second>>>> ELSE <<>>)

\* a variant that refines every patch of the multibasis
RECURSIVE RefineEvery(_, _, _)
RefineEvery(bases, cs, i) ==
    IF i > Len(cs) THEN bases
    ELSE RefineEvery([p \in DOMAIN bases |-> refineElements(bases[p], cs[i][2])], cs, i + 1)

\* the bases after the invocations cs[i..]
RECURSIVE RefineBoth(_, _, _)
RefineBoth(bases, cs, i) ==
    IF i > Len(cs) THEN bases
    ELSE RefineBoth([bases EXCEPT ![cs[i][1]] = refineElements(@, cs[i][2])], cs, i + 1)

\* a variant of the switch without the assertion of the default case
FindByDimNoAssert(d, b, bases) ==
    CASE d = 2 -> [ok |-> TRUE, r |-> repairInterfaceFindElements(2, b, bases)]
      [] d = 3 -> [ok |-> TRUE, r |-> repairInterfaceFindElements(3, b, bases)]
      [] OTHER -> [ok |-> TRUE,
                   r |-> [iU |-> <<>>, first |-> <<>>, second |-> <<>>, changed |-> FALSE]]

\* the switch on this->dim(): the elements found for dimension 2 or 3;
\* ok is false in the default case
FindByDim(d, b, bases) ==
    CASE d = 2 -> [ok |-> TRUE, r |-> repairInterfaceFindElements(2, b, bases)]
      [] d = 3 -> [ok |-> TRUE, r |-> repairInterfaceFindElements(3, b, bases)]
      [] OTHER -> [ok |-> FALSE,
                   r |-> [iU |-> <<>>, first |-> <<>>, second |-> <<>>, changed |-> FALSE]]

\* repairInterface( b ), the call with the interface b as its argument
repairInterfaceOn(b) ==
    /\ status = "ok"
    /\ LET f == FindByDim(dim, b, m_bases)
           r == f.r
       IN  IF Violated(f.ok)
           THEN Abort("repairInterface")
           ELSE /\ calls' = RefineCalls(b, r.changed, r.first, r.second)
                /\ m_bases' = RefineBoth(m_bases, calls', 1)
                /\ refEltsFirst' = r.first
                /\ refEltsSecond' = r.second
                /\ merged' = r.iU
                /\ changed' = r.changed
                /\ earlier' = (IF last = "none" THEN "none"
                               ELSE IF changed \/ earlier = "yes" THEN "yes" ELSE "no")
                /\ last' = "general"
                /\ pre' = m_bases
                /\ bi' = b
                /\ UNCHANGED <<dim, status>>

\* bool gsMultiBasis<T>::repairInterface( const boundaryInterface & bi )
repairInterface == repairInterfaceOn(bi)

\* bool gsMultiBasis<T>::repairInterface2d( const boundaryInterface & bi )
repairInterface2d ==
    /\ status = "ok"
    /\ IF Violated(dim = 2)    \* bas0 != 0 && bas1 != 0: the cast to gsHTensorBasis<2,T>
       THEN Abort("repairInterface2d")
       ELSE LET bas0   == m_bases[bi.first.patch]
                bas1   == m_bases[bi.second.patch]
                cx     == Context2d(bi, bas0, bas1)
                intfc0 == Intfc0(bi, bas0, cx)
                intfc1 == Intfc1(bi, bas1, cx)
                intfcU == MergeKnots(intfc0, intfc1, 1, 1)
                r      == EmitLoop2d(intfcU, 1, 0, <<>>, <<>>, cx)
                ch     == Len(r.first) > 0 \/ Len(r.second) > 0
            IN  IF Violated(SameEnd(intfc0, intfc1)) \/ ~r.ok
                THEN Abort("repairInterface2d")
                ELSE /\ calls' = RefineCalls(bi, TRUE, r.first, r.second)
                     /\ m_bases' = RefineBoth(m_bases, calls', 1)
                     /\ refEltsFirst' = r.first
                     /\ refEltsSecond' = r.second
                     /\ merged' = intfcU
                     /\ changed' = ch
                     /\ earlier' = (IF last = "none" THEN "none"
                                    ELSE IF changed \/ earlier = "yes" THEN "yes" ELSE "no")
                     /\ last' = "2d"
                     /\ pre' = m_bases
                     /\ UNCHANGED <<dim, bi, status>>

\* refEltsFirst.clear(), refEltsSecond.clear()
clear(list) == <<>>

\* bool repairInterfaceFindElements<d>( bi, refEltsFirst, refEltsSecond ),
\* called on its own with the lists as they are: the cast of the bases fails
\* for the d that is not the dimension of the multibasis
FindElementsCall ==
    /\ status = "ok"
    /\ \E d \in {2, 3} :
          IF Violated(d = dim)
          THEN Abort("repairInterfaceFindElements")
          ELSE LET r == repairInterfaceFindElements(d, bi, m_bases)
               IN  /\ refEltsFirst' = clear(refEltsFirst) \o r.first
                   /\ refEltsSecond' = clear(refEltsSecond) \o r.second
                   /\ merged' = r.iU
                   /\ changed' = r.changed
                   /\ earlier' = (IF last = "none" THEN "none"
                                  ELSE IF changed \/ earlier = "yes" THEN "yes" ELSE "no")
                   /\ last' = "find"
                   /\ calls' = <<>>
                   /\ pre' = m_bases
                   /\ UNCHANGED <<dim, m_bases, bi, status>>

Next == repairInterface \/ repairInterface2d

Spec == Init /\ [][Next]_vars

\* the program on interfaces whose sides need not have the same length
InitExtent == Init2Extent /\ Fresh

SpecExtent == InitExtent /\ [][Next]_vars

\* repairInterface2d on interfaces with a side index outside 1..4
InitUnmapped == Init2Unmapped /\ Fresh

SpecUnmapped == InitUnmapped /\ [][repairInterface2d]_vars

\* the loop of a caller over the interfaces of the topology, pass after
\* pass: the next call is for the interface after that of the last call.
\* The loop of the model goes on after a pass without change, in which
\* every further call returns false.
NextInterface ==
    IF last = "none" THEN 1
    ELSE ((CHOOSE i \in 1..Len(Topology) : Topology[i] = bi) % Len(Topology)) + 1

CallerLoop == repairInterfaceOn(Topology[NextInterface])

InitLoop == InitTopology /\ Fresh

\* what every step of the loop does: the call for the next interface is made
CallMade == status = "ok" /\ bi' = Topology[NextInterface] /\ last' = "general"

\* the loop is sequential code that goes from one call to the next
SpecLoop == InitLoop /\ [][CallerLoop]_vars /\ WF_<<bi, last>>(CallMade)

\* the three routines, repairInterfaceFindElements called on its own too
InitFind == Init

NextFind == repairInterface \/ repairInterface2d \/ FindElementsCall

SpecFind == InitFind /\ [][NextFind]_vars

----------------------------------------------------------------------------
(* The geometry of an interface, for the properties below: the cells of     *)
(* the first side at a level R, the cell of the second side that lies       *)
(* across each of them, and the levels the boxes of a side give a cell.     *)

\* a call has returned
Returned == status = "ok" /\ last # "none"

\* the level at which the cells are taken: no box of either side is finer
CellLevel(bases, b) ==
    Max(bases[b.first.patch].maxInsLevel, bases[b.second.patch].maxInsLevel)

\* the number of cells of level R of a tree along axis j
CellsAlong(bas, j, R) == Rescale(At(bas.upperCorner, j), bas.indexLevel, R)

\* the cells of the first side: a coordinate for each axis that spans it
CellsFirst(bases, b, R) ==
    LET bas0 == bases[b.first.patch]
        tang == TangAxes(Len(bas0.upperCorner), direction(b.first.side))
    IN  {x \in [1..Len(tang) -> 0..(MaxOf({CellsAlong(bas0, tang[k], R) : k \in 1..Len(tang)} \cup {1}) - 1)] :
            \A k \in 1..Len(tang) : x[k] < CellsAlong(bas0, tang[k], R)}

\* box (of a tree with levels up to maxIns) holds coordinate v of axis j
HoldsOn(box, maxIns, j, v, R) ==
    /\ Rescale(At(box.lo, j), maxIns, R) <= v
    /\ v < Rescale(At(box.up, j), maxIns, R)

\* the levels of the boxes of the first side at cell x
LevelsFirst(bases, b, x, R) ==
    LET bas0 == bases[b.first.patch]
        tang == TangAxes(Len(bas0.upperCorner), direction(b.first.side))
        bx   == getBoxesOnSide(bas0, b.first.side)
    IN  {bx[i].level : i \in {i \in 1..Len(bx) :
            \A k \in 1..Len(tang) : HoldsOn(bx[i], bas0.maxInsLevel, tang[k], x[k], R)}}

\* the coordinate on axis dirMap[a] of the second side across coordinate v
\* of axis a of the first side
Across(bases, b, a, v, R) ==
    IF At(b.dirOrient, a) THEN v
    ELSE CellsAlong(bases[b.second.patch], At(b.dirMap, a), R) - 1 - v

\* the levels of the boxes of the second side at the cell across x
LevelsSecond(bases, b, x, R) ==
    LET bas0 == bases[b.first.patch]
        bas1 == bases[b.second.patch]
        tang == TangAxes(Len(bas0.upperCorner), direction(b.first.side))
        bx   == getBoxesOnSide(bas1, b.second.side)
    IN  {bx[i].level : i \in {i \in 1..Len(bx) :
            \A k \in 1..Len(tang) :
                HoldsOn(bx[i], bas1.maxInsLevel, At(b.dirMap, tang[k]),
                        Across(bases, b, tang[k], x[k], R), R)}}

\* every point of the interface has one level on either side, and the same
Conforming(bases, b) ==
    LET R == CellLevel(bases, b)
    IN  \A x \in CellsFirst(bases, b, R) :
            /\ Cardinality(LevelsFirst(bases, b, x, R)) = 1
            /\ LevelsFirst(bases, b, x, R) = LevelsSecond(bases, b, x, R)

\* an axis that spans the first side is flipped on the second side
SomeFlip(b, d) == \E j \in 0..(d - 1) : j # direction(b.first.side) /\ ~At(b.dirOrient, j)

\* the axes that span the sides are not mapped in their order
Permuted(b, d) ==
    \E j, k \in 0..(d - 1) :
        /\ j # direction(b.first.side) /\ k # direction(b.first.side)
        /\ j < k /\ At(b.dirMap, j) > At(b.dirMap, k)

----------------------------------------------------------------------------
(* C1 *)

\* C1 (level consistency): when repairInterface has returned and its
\* requests are applied, every point of the interface has the same boundary
\* level on the first and on the second side, for every permutation of the
\* axes and every flip.
LevelConsistency == (Returned /\ last = "general") => Conforming(m_bases, bi)

\* a 3-D interface with permuted and flipped axes that was not conforming:
\* the second side was refined in two boxes
LevelConsistencyWitness ==
    /\ Returned /\ last = "general" /\ dim = 3
    /\ Permuted(bi, 3) /\ SomeFlip(bi, 3)
    /\ Len(refEltsSecond) = 14
    /\ ~Conforming(pre, bi)
    /\ Conforming(m_bases, bi)

----------------------------------------------------------------------------
(* C2 *)

----------------------------------------------------------------------------
(* C3 *)

\* C3 (idempotence): on a conforming interface a call emits no request for
\* either side, returns false and refines no basis; the interface is then as
\* before, so this is so for the call after it too.
Idempotence ==
    (Returned /\ Conforming(pre, bi)) =>
        /\ refEltsFirst = <<>> /\ refEltsSecond = <<>>
        /\ ~changed
        /\ calls = <<>>
        /\ m_bases = pre

\* two calls in a row on an interface that conformed from the start, with
\* boxes of different levels along it and a flipped axis
IdempotenceWitness ==
    /\ Returned /\ earlier = "no" /\ ~changed
    /\ Conforming(pre, bi)
    /\ SomeFlip(bi, dim)
    /\ \E i, k \in 1..Len(merged) : merged[i][Len(merged[i])] # merged[k][Len(merged[k])]

----------------------------------------------------------------------------
(* C4 *)

\* the boxes of the second side and the axes of the second patch that span it
BoxesSecond(bases, b) == getBoxesOnSide(bases[b.second.patch], b.second.side)

TangSecond(b, d) == TangAxes(d, direction(b.second.side))

\* axis j of the second patch is a flipped image of an axis of the first
FlippedSecond(b, d, j) == \E jj \in 0..(d - 1) : At(b.dirMap, jj) = j /\ ~At(b.dirOrient, jj)

\* a box of the second side as it is read by repairInterfaceFindElements, and
\* the box emitted for the second side from the whole of it at level Luse
EmittedFromRead(b, bases, box, Luse) ==
    LET d    == Len(box.lo)
        bas1 == bases[b.second.patch]
        cx   == FindContext(d, b, bases[b.first.patch], bas1)
        row  == ReadSecondRow(box, 0, b.dirMap, b.dirOrient, cx.Lu - bas1.maxInsLevel,
                              cx.upperCorn1)
        seg  == <<At(row.lo, cx.ax1.a), At(row.lo, cx.ax1.b),
                  At(row.up, cx.ax1.a), At(row.up, cx.ax1.b), Luse, box.level>>
    IN  EmitBox([k \in 1..(1 + 2 * d) |-> 0], seg, cx)

\* the same for repairInterface2d: the knots of the box as they are read,
\* and the knots emitted for second() at level Luse
EmittedFromRead2d(b, bases, box, Luse) ==
    LET bas1 == bases[b.second.patch]
        cx   == Context2d(b, bases[b.first.patch], bas1)
        e    == cx.Lu - bas1.maxInsLevel
        row  == <<ShL(At(box.lo, cx.dir1), e), ShL(At(box.up, cx.dir1), e), box.level>>
        rd   == IF ~cx.orientPreserv
                THEN FlipKnots(<<row>>, At(cx.upperCorn1, cx.dir1))[1]
                ELSE row
    IN  KnotsSecond2d(rd[1], rd[2], cx.orientPreserv, At(cx.upperCorn1, cx.dir1),
                      cx.Lu - Luse)

\* the extent of the box on axis j, in indices of level Luse
ExtentAt(bases, b, box, j, Luse) ==
    <<Rescale(At(box.lo, j), bases[b.second.patch].maxInsLevel, Luse),
      Rescale(At(box.up, j), bases[b.second.patch].maxInsLevel, Luse)>>

----------------------------------------------------------------------------
(* The merged trace of the last call as boxes <<lo_a, lo_b, up_a, up_b, L0,  *)
(* L1>> in indices of level indexLevelUse; a span of intfcU starts at the    *)
(* end of the span before it, the first at 0                                *)

Trace ==
    IF last = "2d"
    THEN [i \in 1..Len(merged) |->
            LET knot0 == IF i = 1 THEN 0 ELSE merged[i - 1][1]
            IN  <<knot0, knot0, merged[i][1], merged[i][1], merged[i][2], merged[i][3]>>]
    ELSE merged

\* what the last call has read of the bases at its entry
TraceContext == FindContext(dim, bi, pre[bi.first.patch], pre[bi.second.patch])

\* the segments for which the first side is coarser, and the second
CoarserFirst == SelectSeq(Trace, LAMBDA seg : seg[5] < seg[6])

CoarserSecond == SelectSeq(Trace, LAMBDA seg : seg[5] > seg[6])

\* the extent of a segment on axis a or b of the merged frame (n = 1, 2),
\* right-shifted from level indexLevelUse to level Luse
Shifted(seg, n, Luse) ==
    <<ShR(seg[n], TraceContext.Lu - Luse), ShR(seg[2 + n], TraceContext.Lu - Luse)>>

\* the extent of a request on axis j
ExtentOf(req, j) == <<At(req.lo, j), At(req.up, j)>>

\* the axes of the merged frame that span the interface, on the first patch
\* and on the second
SpanFirst == IF dim = 2 THEN <<TraceContext.ax0.a>> ELSE <<TraceContext.ax0.a, TraceContext.ax0.b>>

SpanSecond == IF dim = 2 THEN <<TraceContext.ax1.a>> ELSE <<TraceContext.ax1.a, TraceContext.ax1.b>>

\* the upper corner of the second patch on axis j, in indices of level Luse
UpperSecond(j, Luse) == ShR(At(TraceContext.upperCorn1, j), TraceContext.Lu - Luse)

----------------------------------------------------------------------------
(* C5 *)

\* the cells of level indexLevelUse of the merged frame that a side or the
\* trace can cover
TraceCells ==
    LET cx == TraceContext
        G  == Max(Max(At(cx.upperCorn0, cx.ax0.a), At(cx.upperCorn0, cx.ax0.b)),
                  Max(At(cx.upperCorn1, cx.ax1.a), At(cx.upperCorn1, cx.ax1.b)))
    IN  IF dim = 2 THEN {<<v, v>> : v \in 0..(G - 1)}
        ELSE (0..(G - 1)) \X (0..(G - 1))

\* cell x lies in the box [lo, up] given on the two axes
InBox(x, loa, lob, upa, upb) == loa <= x[1] /\ x[1] < upa /\ lob <= x[2] /\ x[2] < upb

\* cell x lies in a box of the first side, of the second side (as they are
\* read at the entry of the call), in segment i of the trace
InFirst(x) ==
    LET cx == TraceContext
        rows == ReadFirst(pre[bi.first.patch], bi.first.side, cx.Lu)
    IN  \E i \in 1..Len(rows) :
            InBox(x, At(rows[i].lo, cx.ax0.a), At(rows[i].lo, cx.ax0.b),
                     At(rows[i].up, cx.ax0.a), At(rows[i].up, cx.ax0.b))

InSecond(x) ==
    LET cx == TraceContext
        rows == ReadSecond(pre[bi.second.patch], bi.second.side, cx.Lu, bi.dirMap,
                           bi.dirOrient, cx.upperCorn1)
    IN  \E i \in 1..Len(rows) :
            InBox(x, At(rows[i].lo, cx.ax1.a), At(rows[i].lo, cx.ax1.b),
                     At(rows[i].up, cx.ax1.a), At(rows[i].up, cx.ax1.b))

InSegment(x, i) == InBox(x, Trace[i][1], Trace[i][2], Trace[i][3], Trace[i][4])

\* C5 (merged trace coverage): the segments of the merged trace of
\* repairInterface2d and of repairInterfaceFindElements do not overlap, and
\* their union is the union of the extents of the two sides at level
\* indexLevelUse: no coordinate of the interface is dropped.
MergedTraceCoverage ==
    (Returned /\ dim \in {2, 3}) =>
        \A x \in TraceCells :
            /\ Cardinality({i \in 1..Len(Trace) : InSegment(x, i)}) <= 1
            /\ (\E i \in 1..Len(Trace) : InSegment(x, i)) <=> (InFirst(x) \/ InSecond(x))

----------------------------------------------------------------------------
(* C6 *)

\* the requests of a side are those of the segments in which it is the
\* coarser side, one for each in their order, with the level of the finer
\* side; Extent(seg, n, Luse) is the extent a request of the second side has
\* on axis n of the merged frame
EmittedFor(Extent(_, _, _)) ==
    LET rf == Requests(refEltsFirst, dim)
        rs == Requests(refEltsSecond, dim)
    IN  /\ Len(refEltsFirst) = (1 + 2 * dim) * Len(CoarserFirst)
        /\ Len(refEltsSecond) = (1 + 2 * dim) * Len(CoarserSecond)
        /\ \A k \in 1..Len(CoarserFirst) :
              LET seg == CoarserFirst[k]
              IN  /\ rf[k].level = Max(seg[5], seg[6])
                  /\ \A n \in 1..(dim - 1) :
                        ExtentOf(rf[k], SpanFirst[n]) = Shifted(seg, n, rf[k].level)
        /\ \A k \in 1..Len(CoarserSecond) :
              LET seg == CoarserSecond[k]
              IN  /\ rs[k].level = Max(seg[5], seg[6])
                  /\ \A n \in 1..(dim - 1) :
                        ExtentOf(rs[k], SpanSecond[n]) = Extent(seg, n, rs[k].level)

\* the extent of a segment on the axis of the second patch: right-shifted,
\* and mirrored in the upper corner of the patch at that level when the axis
\* is not orientation-preserved
ShiftedSecond(seg, n, Luse) ==
    IF At(bi.dirOrient, SpanFirst[n]) THEN Shifted(seg, n, Luse)
    ELSE <<UpperSecond(SpanSecond[n], Luse) - Shifted(seg, n, Luse)[2],
           UpperSecond(SpanSecond[n], Luse) - Shifted(seg, n, Luse)[1]>>

----------------------------------------------------------------------------
(* C7 *)

----------------------------------------------------------------------------
(* C8 *)

\* C8 (changed flag): repairInterface returns true exactly when a request was
\* emitted for the first or the second side; when it returns false, no
\* refineElements is invoked; when it returns true, refineElements is invoked
\* on the sides with a non-empty list, with that list, and on no other.
ChangedFlag ==
    (Returned /\ last = "general") =>
        /\ changed <=> (refEltsFirst # <<>> \/ refEltsSecond # <<>>)
        /\ ~changed => calls = <<>>
        /\ \A i \in 1..Len(calls) :
              /\ calls[i][2] # <<>>
              /\ \/ calls[i] = <<bi.first.patch, refEltsFirst>>
                 \/ calls[i] = <<bi.second.patch, refEltsSecond>>
        /\ Len(calls) <= 2
        /\ Len(calls) = 2 => calls[1] # calls[2]

\* repairInterface returned true with requests for the first side alone:
\* one invocation of refineElements
ChangedFlagWitness ==
    /\ Returned /\ last = "general" /\ changed
    /\ refEltsFirst # <<>> /\ refEltsSecond = <<>>
    /\ calls = <<<<bi.first.patch, refEltsFirst>>>>

----------------------------------------------------------------------------
(* C9 *)

\* C9 (unsupported dimension): with a dimension other than 2 and 3 no call
\* returns, with changed = false or otherwise, and no basis is refined.
UnsupportedDimension ==
    dim \notin {2, 3} =>
        /\ last = "none"
        /\ m_bases = pre
        /\ calls = <<>>
        /\ refEltsFirst = <<>> /\ refEltsSecond = <<>>

\* repairInterface has stopped at its assertion in dimension 4, the levels
\* of the two sides being different
UnsupportedDimensionWitness ==
    /\ dim = 4 /\ status = "repairInterface aborted"
    /\ ~Conforming(m_bases, bi)

----------------------------------------------------------------------------
(* C10 *)

\* the end of the last span of the first side is not the end of the last
\* span of the second, after normalisation, flip and sort
EndsDiffer ==
    LET bas0   == m_bases[bi.first.patch]
        bas1   == m_bases[bi.second.patch]
        cx     == Context2d(bi, bas0, bas1)
        intfc0 == Intfc0(bi, bas0, cx)
        intfc1 == Intfc1(bi, bas1, cx)
    IN  intfc0[Len(intfc0)][2] # intfc1[Len(intfc1)][2]

\* C10 (final-extent precondition): a call of repairInterface2d on sides
\* whose last spans end at different knots stops at a fatal assertion: it
\* does not return, no request is emitted, nothing is merged and no basis is
\* refined.  (A step that is not a return of repairInterface is a step of
\* repairInterface2d.)
FinalExtentPrecondition ==
    [][(dim = 2 /\ EndsDiffer /\ ~(status' = "ok" /\ last' = "general")) =>
          /\ status' = "repairInterface2d aborted"
          /\ m_bases' = m_bases
          /\ calls' = calls
          /\ refEltsFirst' = refEltsFirst /\ refEltsSecond' = refEltsSecond
          /\ merged' = merged
          /\ last' = last /\ changed' = changed]_vars

\* repairInterface2d has stopped on sides of different levels whose last
\* spans end at different knots, before any other call
FinalExtentPreconditionWitness ==
    /\ dim = 2 /\ status = "repairInterface2d aborted" /\ last = "none"
    /\ EndsDiffer
    /\ SomeFlip(bi, 2)
    /\ \E i \in 1..Len(BoxesSecond(m_bases, bi)) :
          BoxesSecond(m_bases, bi)[i].level
              # getBoxesOnSide(m_bases[bi.first.patch], bi.first.side)[1].level

----------------------------------------------------------------------------
(* C11 *)

\* the sorted knot spans of the two sides at the entry of the last call of
\* repairInterface2d
EntryContext2d == Context2d(bi, pre[bi.first.patch], pre[bi.second.patch])

EntryIntfc0 == Intfc0(bi, pre[bi.first.patch], EntryContext2d)

EntryIntfc1 == Intfc1(bi, pre[bi.second.patch], EntryContext2d)

\* the knot at which span k of intfcU starts
StartKnot(k) == IF k = 1 THEN 0 ELSE merged[k - 1][1]

\* the cursor of a side at pass k of the merge loop: the span of the side
\* that holds the start of span k of intfcU
CursorAt(intfc, k) ==
    CHOOSE i \in 1..Len(intfc) : intfc[i][1] <= StartKnot(k) /\ StartKnot(k) < intfc[i][2]

\* C11 (2-D sorted merge step): every pass of the merge loop of
\* repairInterface2d emits one span that ends at the smaller one of the ends
\* of the current spans of the two sides, with the levels of these two
\* spans, and moves on exactly the cursors whose span ends there (both when
\* the ends are equal); one level-2 span [0,4] against the level-3 spans
\* [0,2], [2,4] gives the spans ending at 2 and 4 with levels (2,3).
SortedMergeStep ==
    /\ MergeKnots(<<<<0, 4, 2>>>>, <<<<0, 2, 3>>, <<2, 4, 3>>>>, 1, 1)
          = <<<<2, 2, 3>>, <<4, 2, 3>>>>
    /\ (Returned /\ last = "2d") =>
          /\ Len(merged) = Cardinality({EntryIntfc0[i][2] : i \in 1..Len(EntryIntfc0)}
                                       \cup {EntryIntfc1[i][2] : i \in 1..Len(EntryIntfc1)})
          /\ \A k \in 1..Len(merged) :
                LET i0 == CursorAt(EntryIntfc0, k)
                    i1 == CursorAt(EntryIntfc1, k)
                IN  /\ \E i \in 1..Len(EntryIntfc0) :
                          EntryIntfc0[i][1] <= StartKnot(k) /\ StartKnot(k) < EntryIntfc0[i][2]
                    /\ \E i \in 1..Len(EntryIntfc1) :
                          EntryIntfc1[i][1] <= StartKnot(k) /\ StartKnot(k) < EntryIntfc1[i][2]
                    /\ merged[k] = <<Min(EntryIntfc0[i0][2], EntryIntfc1[i1][2]),
                                     EntryIntfc0[i0][3], EntryIntfc1[i1][3]>>
                    /\ k < Len(merged) =>
                          /\ CursorAt(EntryIntfc0, k + 1)
                                = IF EntryIntfc0[i0][2] = merged[k][1] THEN i0 + 1 ELSE i0
                          /\ CursorAt(EntryIntfc1, k + 1)
                                = IF EntryIntfc1[i1][2] = merged[k][1] THEN i1 + 1 ELSE i1

\* repairInterface2d has merged one span of the first side with two spans
\* of the second side, one level finer, on a flipped axis
SortedMergeStepWitness ==
    /\ Returned /\ last = "2d" /\ SomeFlip(bi, 2)
    /\ Len(EntryIntfc0) = 1 /\ Len(EntryIntfc1) = 2
    /\ Len(merged) = 2
    /\ merged[1][3] = merged[1][2] + 1 /\ merged[2][3] = merged[1][3]
    /\ merged[2][1] = 2 * merged[1][1]

----------------------------------------------------------------------------
(* C12 *)

\* the boxes of the two sides as the last call of repairInterface has read
\* them
EntryRows0 == ReadFirst(pre[bi.first.patch], bi.first.side, TraceContext.Lu)

EntryRows1 ==
    ReadSecond(pre[bi.second.patch], bi.second.side, TraceContext.Lu, bi.dirMap,
               bi.dirOrient, TraceContext.upperCorn1)

\* the common part of box i0 of the first side and box i1 of the second on
\* axis n of the merged frame
CommonPart(i0, i1, n) ==
    <<Max(At(EntryRows0[i0].lo, SpanFirst[n]), At(EntryRows1[i1].lo, SpanSecond[n])),
      Min(At(EntryRows0[i0].up, SpanFirst[n]), At(EntryRows1[i1].up, SpanSecond[n]))>>

\* the pairs whose boxes have more than a coordinate in common on every axis
OverlappingPairs ==
    {p \in (1..Len(EntryRows0)) \X (1..Len(EntryRows1)) :
        \A n \in 1..(dim - 1) : CommonPart(p[1], p[2], n)[1] < CommonPart(p[1], p[2], n)[2]}

\* the place of an overlapping pair in the order of the two loops
PlaceOf(p) ==
    1 + Cardinality({q \in OverlappingPairs :
                        q[1] < p[1] \/ (q[1] = p[1] /\ q[2] < p[2])})

\* C12 (general-path overlap test): a pair (box i0 of the first side, box i1
\* of the second side) gives a segment of iU if and only if on every
\* tangential axis lo0 < up1 and lo1 < up0, so that pairs which only touch
\* give nothing; the segment is [max(lo0,lo1), min(up0,up1)] on each axis
\* with the levels (level0[i0], level1[i1]), and every overlapping pair gives
\* exactly one segment.
OverlapTest ==
    (Returned /\ last = "general") =>
        /\ Len(merged) = Cardinality(OverlappingPairs)
        /\ \A p \in OverlappingPairs :
              LET seg == merged[PlaceOf(p)]
              IN  /\ seg[5] = EntryRows0[p[1]].level
                  /\ seg[6] = EntryRows1[p[2]].level
                  /\ <<seg[1], seg[3]>> = CommonPart(p[1], p[2], 1)
                  /\ <<seg[2], seg[4]>> = CommonPart(p[1], p[2], dim - 1)

\* a 3-D interface with permuted axes, two boxes on either side: of the
\* four pairs two overlap, two touch
OverlapTestWitness ==
    /\ Returned /\ last = "general" /\ dim = 3 /\ Permuted(bi, 3)
    /\ Len(EntryRows0) = 2 /\ Len(EntryRows1) = 2
    /\ Len(merged) = 2
    /\ \E p \in (1..2) \X (1..2) :
          /\ p \notin OverlappingPairs
          /\ \E n \in 1..2 : CommonPart(p[1], p[2], n)[1] = CommonPart(p[1], p[2], n)[2]

----------------------------------------------------------------------------
(* C13 *)

\* the slab of one cell of level L at side `side` of the tree bas, on the
\* axis normal to the side
SlabAt(bas, side, L) ==
    LET U == Rescale(At(bas.upperCorner, direction(side)), bas.indexLevel, L)
    IN  IF side % 2 = 1 THEN <<0, 1>> ELSE <<U - 1, U>>

\* C13 (normal-axis slab): every request has, on the axis normal to the side
\* of the patch it is for, the extent [0,1] when the side is a low side (odd
\* index: west, south, front) and [U-1, U] when it is a high side (even
\* index: east, north, back), U being the upper corner of that patch on the
\* normal axis right-shifted to the level of the request: one cell thick, in
\* repairInterfaceFindElements and in repairInterface2d.
NormalAxisSlab ==
    (Returned /\ dim \in {2, 3}) =>
        /\ \A k \in 1..Len(Requests(refEltsFirst, dim)) :
              LET req == Requests(refEltsFirst, dim)[k]
              IN  ExtentOf(req, direction(bi.first.side))
                      = SlabAt(pre[bi.first.patch], bi.first.side, req.level)
        /\ \A k \in 1..Len(Requests(refEltsSecond, dim)) :
              LET req == Requests(refEltsSecond, dim)[k]
              IN  ExtentOf(req, direction(bi.second.side))
                      = SlabAt(pre[bi.second.patch], bi.second.side, req.level)

\* repairInterface has emitted a request for the back side of the second
\* patch of a 3-D interface whose normal axis is flipped: the slab is the
\* last cell, not the first
NormalAxisSlabWitness ==
    /\ Returned /\ last = "general" /\ dim = 3
    /\ bi.second.side = 6 /\ ~At(bi.dirOrient, direction(bi.first.side))
    /\ Len(Requests(refEltsSecond, 3)) > 0
    /\ ExtentOf(Requests(refEltsSecond, 3)[1], 2)[1] > 0
    /\ ExtentOf(Requests(refEltsSecond, 3)[1], 2)[2]
          = ExtentOf(Requests(refEltsSecond, 3)[1], 2)[1] + 1

----------------------------------------------------------------------------
(* C14 *)

\* the segments are in the order of their reference coordinates
LeftToRight(segs) ==
    \A k, n \in 1..Len(segs) :
        k < n => \/ segs[k][1] < segs[n][1]
                 \/ (segs[k][1] = segs[n][1] /\ segs[k][2] < segs[n][2])

\* pair q comes before pair p in the two loops over the boxes
LoopBefore(q, p) == q[1] < p[1] \/ (q[1] = p[1] /\ q[2] < p[2])

\* the overlapping pairs for which the first side is coarser, and the second
PairsFirst == {p \in OverlappingPairs : EntryRows0[p[1]].level < EntryRows1[p[2]].level}

PairsSecond == {p \in OverlappingPairs : EntryRows0[p[1]].level > EntryRows1[p[2]].level}

\* the requests of a side follow its pairs P in the order of the loops: the
\* request at the place of pair p has the level of the finer box of p and,
\* for the first side, the right-shifted common part of p
InLoopOrder(reqs, P) ==
    /\ Len(reqs) = Cardinality(P)
    /\ \A p \in P :
          LET req == reqs[1 + Cardinality({q \in P : LoopBefore(q, p)})]
          IN  /\ req.level = Max(EntryRows0[p[1]].level, EntryRows1[p[2]].level)
              /\ P = PairsFirst =>
                    \A n \in 1..(dim - 1) :
                        ExtentOf(req, SpanFirst[n])
                            = <<ShR(CommonPart(p[1], p[2], n)[1], TraceContext.Lu - req.level),
                                ShR(CommonPart(p[1], p[2], n)[2], TraceContext.Lu - req.level)>>

\* C14 as stated (emission order): the requests of each side are emitted in
\* the left-to-right order of the reference coordinates of their segments,
\* for any order in which the tree returns the boxes, in repairInterface2d
\* and in repairInterfaceFindElements.
EmissionOrderAsStated ==
    (Returned /\ dim \in {2, 3}) =>
        /\ EmittedFor(ShiftedSecond)
        /\ LeftToRight(CoarserFirst)
        /\ LeftToRight(CoarserSecond)

\* C14 (emission order), amended: in repairInterface2d the requests of each
\* side are emitted in the left-to-right order of the reference coordinates
\* of their segments, for any order in which the tree returns the boxes; in
\* repairInterfaceFindElements they are emitted in the order in which the
\* two loops (boxes of the first side outside, boxes of the second inside)
\* meet the overlapping pairs, which is the order of the tree and of the
\* flips, not that of the coordinates.
EmissionOrder ==
    (Returned /\ dim \in {2, 3}) =>
        /\ last = "2d" =>
              /\ EmittedFor(ShiftedSecond)
              /\ LeftToRight(CoarserFirst)
              /\ LeftToRight(CoarserSecond)
        /\ last = "general" =>
              /\ InLoopOrder(Requests(refEltsFirst, dim), PairsFirst)
              /\ InLoopOrder(Requests(refEltsSecond, dim), PairsSecond)

\* repairInterface2d has emitted two requests for the first side from left
\* to right, the tree of the second side having returned its two boxes from
\* right to left in the reference frame
EmissionOrderWitness ==
    /\ Returned /\ last = "2d"
    /\ Len(Requests(refEltsFirst, 2)) = 2
    /\ ExtentOf(Requests(refEltsFirst, 2)[1], SpanFirst[1])[2]
          <= ExtentOf(Requests(refEltsFirst, 2)[2], SpanFirst[1])[1]
    /\ Len(EntryRows1) = 2
    /\ At(EntryRows1[1].lo, SpanSecond[1]) > At(EntryRows1[2].lo, SpanSecond[1])

----------------------------------------------------------------------------
(* C15 *)

\* the spans repairInterface2d merges from the bases as they are now
SpansNow ==
    LET bas0 == m_bases[bi.first.patch]
        bas1 == m_bases[bi.second.patch]
        cx   == Context2d(bi, bas0, bas1)
    IN  [intfc0 |-> Intfc0(bi, bas0, cx), intfc1 |-> Intfc1(bi, bas1, cx)]

\* a span of the merge needs a box for a side whose index is not in 1..4
NeedsUnmappedSide ==
    LET iU == MergeKnots(SpansNow.intfc0, SpansNow.intfc1, 1, 1)
    IN  \E k \in 1..Len(iU) :
           \/ iU[k][2] < iU[k][3] /\ bi.first.side \notin 1..4
           \/ iU[k][2] > iU[k][3] /\ bi.second.side \notin 1..4

\* C15 (unmapped side index): a call of repairInterface2d in which a span
\* needs refinement of a side whose index is outside 1..4 ends with a fatal
\* assertion and refines nothing; no list handed to refineElements holds a
\* level without its four box coordinates, every such list has a length
\* that is a multiple of 5.
UnmappedSideIndex ==
    [][/\ (status = "ok" /\ dim = 2 /\ NeedsUnmappedSide) =>
              /\ status' = "repairInterface2d aborted"
              /\ m_bases' = m_bases
              /\ calls' = calls
       /\ \A k \in 1..Len(calls') : Len(calls'[k][2]) % 5 = 0]_vars

\* the routine has stopped on the default case of the switch for the first
\* side at the second span, after the end knots of both sides agreed
UnmappedSideIndexWitness ==
    /\ status = "repairInterface2d aborted"
    /\ dim = 2
    /\ bi.first.side = 5 /\ bi.second.side \in 1..4
    /\ SameEnd(SpansNow.intfc0, SpansNow.intfc1)
    /\ LET iU == MergeKnots(SpansNow.intfc0, SpansNow.intfc1, 1, 1)
       IN  Len(iU) = 2 /\ iU[1][2] = iU[1][3] /\ iU[2][2] < iU[2][3]

----------------------------------------------------------------------------
(* C16 *)

\* the width of the unsigned values of the model: 30 bits for the 32 of the
\* code, the widest power of two that the integers of the model hold;
\* a difference of two levels wraps around in the same cases
UnsignedBits == 30

\* a - b as the unsigned subtraction gives it
SubUnsigned(a, b) == (a - b) % (2 ^ UnsignedBits)

\* the unsigned difference is the difference: a - b has not wrapped around
NoUnderflow(a, b) == SubUnsigned(a, b) = a - b

\* what the last call has read at its entry, by the routine that ran
EntryContext == IF last = "2d" THEN EntryContext2d ELSE TraceContext

\* the boundary levels of a tree are at most its maxInsLevel, and this at
\* most its indexLevel
LevelsInRange(bas, side) ==
    /\ bas.maxInsLevel <= bas.indexLevel
    /\ \A i \in 1..Len(getBoxesOnSide(bas, side)) :
          getBoxesOnSide(bas, side)[i].level <= bas.maxInsLevel

\* C16 (level normalization): for trees whose boundary levels are at most
\* maxInsLevel_i and whose maxInsLevel_i is at most indexLevel_i, the
\* reference level indexLevelUse is the larger one of the two index levels;
\* the shifts indexLevelUse - indexLevel_i of the upper corners do not wrap
\* around and one of them is zero, which leaves the upper corner of that
\* side as it is; the shifts indexLevelUse - maxInsLevel_i of the boundary
\* boxes and indexLevelUse - Luse of the emitted boxes do not wrap around as
\* unsigned values.
LevelNormalization ==
    (Returned /\ dim \in {2, 3}) =>
        LET bas0 == pre[bi.first.patch]
            bas1 == pre[bi.second.patch]
            Lu   == EntryContext.Lu
        IN  (LevelsInRange(bas0, bi.first.side) /\ LevelsInRange(bas1, bi.second.side)) =>
              /\ Lu = Max(bas0.indexLevel, bas1.indexLevel)
              /\ NoUnderflow(Lu, bas0.indexLevel) /\ NoUnderflow(Lu, bas1.indexLevel)
              /\ SubUnsigned(Lu, bas0.indexLevel) = 0 \/ SubUnsigned(Lu, bas1.indexLevel) = 0
              /\ SubUnsigned(Lu, bas0.indexLevel) = 0 => EntryContext.upperCorn0 = bas0.upperCorner
              /\ SubUnsigned(Lu, bas1.indexLevel) = 0 => EntryContext.upperCorn1 = bas1.upperCorner
              /\ NoUnderflow(Lu, bas0.maxInsLevel) /\ NoUnderflow(Lu, bas1.maxInsLevel)
              /\ \A k \in 1..Len(Requests(refEltsFirst, dim)) :
                    NoUnderflow(Lu, Requests(refEltsFirst, dim)[k].level)
              /\ \A k \in 1..Len(Requests(refEltsSecond, dim)) :
                    NoUnderflow(Lu, Requests(refEltsSecond, dim)[k].level)

\* a call on trees with different index levels, the second one the reference
\* level, has shifted the boxes of the first side by indexLevelUse minus
\* maxInsLevel > 0 and has emitted a box at a level below indexLevelUse
LevelNormalizationWitness ==
    /\ Returned /\ dim \in {2, 3}
    /\ LevelsInRange(pre[bi.first.patch], bi.first.side)
    /\ LevelsInRange(pre[bi.second.patch], bi.second.side)
    /\ pre[bi.first.patch].indexLevel < pre[bi.second.patch].indexLevel
    /\ pre[bi.first.patch].maxInsLevel < pre[bi.first.patch].indexLevel
    /\ Len(Requests(refEltsFirst, dim)) > 0
    /\ Requests(refEltsFirst, dim)[1].level < EntryContext.Lu

----------------------------------------------------------------------------
(* C17 *)

\* the basis of patch p after the invocations of refineElements in cs
AfterCalls(bas, p, cs) ==
    IF \E k \in 1..Len(cs) : cs[k][1] = p
    THEN refineElements(bas, cs[CHOOSE k \in 1..Len(cs) : cs[k][1] = p][2])
    ELSE bas

\* C17 (ownership and frame): a call of repairInterfaceFindElements changes
\* no basis and leaves in the two lists the requests of this call alone,
\* whatever they held before; a call of repairInterface or repairInterface2d
\* changes the bases of bi.first().patch and bi.second().patch at most, each
\* by the invocation of refineElements on it and by nothing else; every
\* other patch's basis and the topology stay as they are.
OwnershipAndFrame ==
    [][/\ bi' = bi /\ dim' = dim
       /\ DOMAIN m_bases' = DOMAIN m_bases
       /\ \A p \in DOMAIN m_bases :
             p \notin {bi.first.patch, bi.second.patch} => m_bases'[p] = m_bases[p]
       /\ \A k \in 1..Len(calls') : calls'[k][1] \in {bi.first.patch, bi.second.patch}
       /\ \A p \in DOMAIN m_bases : m_bases'[p] = AfterCalls(m_bases[p], p, calls')
       /\ (status' = "ok" /\ last' = "find") =>
             /\ m_bases' = m_bases
             /\ calls' = <<>>
             /\ Len(refEltsFirst') = (1 + 2 * dim) * Len(SelectSeq(merged', LAMBDA seg : seg[5] < seg[6]))
             /\ Len(refEltsSecond') = (1 + 2 * dim) * Len(SelectSeq(merged', LAMBDA seg : seg[5] > seg[6]))]_vars

\* repairInterfaceFindElements has been called with a list that held the
\* requests of an earlier call of repairInterface, which had refined the
\* first patch and no other; the bystander patch is as in the beginning
OwnershipAndFrameWitness ==
    /\ status = "ok" /\ last = "find"
    /\ earlier = "yes"
    /\ refEltsFirst = <<>> /\ refEltsSecond = <<>>
    /\ pre = m_bases
    /\ m_bases[2].maxInsLevel = 0
    /\ m_bases[bi.first.patch].maxInsLevel > 0

----------------------------------------------------------------------------
(* C18 *)

\* the numbers of boundary boxes of the two sides at the entry of the call
BoxesFirst == Len(getBoxesOnSide(pre[bi.first.patch], bi.first.side))

BoxesOnSecond == Len(getBoxesOnSide(pre[bi.second.patch], bi.second.side))

\* the number of requests in the two lists together
RequestsEmitted == Len(Requests(refEltsFirst, dim)) + Len(Requests(refEltsSecond, dim))

\* C18 (single-interface termination): with n0 and n1 boundary boxes on the
\* two sides, the merge loop of repairInterface2d ends after n0 + n1 - 1
\* passes at most, every pass pushing one span of intfcU that ends beyond
\* the span before it (a cursor has moved on); the general path gives
\* n0 * n1 segments at most; neither path emits more requests than it has
\* merged segments.
SingleInterfaceTermination ==
    (Returned /\ dim \in {2, 3}) =>
        /\ last = "2d" =>
              /\ Len(merged) <= BoxesFirst + BoxesOnSecond - 1
              /\ \A k \in 1..Len(merged) : StartKnot(k) < merged[k][1]
        /\ last = "general" => Len(merged) <= BoxesFirst * BoxesOnSecond
        /\ RequestsEmitted <= Len(merged)

\* repairInterface2d has merged one box against two in two passes, the
\* most there can be, and has emitted a request for each of the two spans
SingleInterfaceTerminationWitness ==
    /\ Returned /\ last = "2d"
    /\ BoxesFirst + BoxesOnSecond = 3
    /\ Len(merged) = 2
    /\ RequestsEmitted = 2

----------------------------------------------------------------------------
(* C19 *)

\* every boundary box of level l of the side has its corners on the grid of
\* level l, on the axes that span the side
AlignedBoxes(bas, side) ==
    LET bx   == getBoxesOnSide(bas, side)
        tang == TangAxes(Len(bas.upperCorner), direction(side))
    IN  \A i \in 1..Len(bx) : \A k \in 1..Len(tang) :
           /\ OnGrid(At(bx[i].lo, tang[k]), bx[i].level, bas.maxInsLevel)
           /\ OnGrid(At(bx[i].up, tang[k]), bx[i].level, bas.maxInsLevel)

\* both patches are equally long on the axes that span the interface
SameExtentAlong ==
    \A n \in 1..(dim - 1) :
        At(TraceContext.upperCorn0, SpanFirst[n]) = At(TraceContext.upperCorn1, SpanSecond[n])

\* box req for the tree bas: below its upper corner on every axis, and of
\* positive extent
WellFormedBox(req, bas) ==
    \A j \in 0..(dim - 1) :
        /\ 0 <= At(req.lo, j)
        /\ At(req.lo, j) < At(req.up, j)
        /\ At(req.up, j) <= Rescale(At(bas.upperCorner, j), bas.indexLevel, req.level)

\* the extent of a request on axis j, shifted back to level indexLevelUse
ShiftedBack(req, j) ==
    <<ShL(At(req.lo, j), TraceContext.Lu - req.level),
      ShL(At(req.up, j), TraceContext.Lu - req.level)>>

\* the extent of a segment on axis n of the merged frame as the second patch
\* numbers it
SegmentOnSecond(seg, n) ==
    IF At(bi.dirOrient, SpanFirst[n]) THEN <<seg[n], seg[2 + n]>>
    ELSE <<At(TraceContext.upperCorn1, SpanSecond[n]) - seg[2 + n],
           At(TraceContext.upperCorn1, SpanSecond[n]) - seg[n]>>

\* C19 (well-formed emitted boxes): when every boundary box of level l lies
\* on the grid of level l and both patches are equally long along the
\* interface, every emitted box has its lower corner strictly below its
\* upper corner on every axis, lies between 0 and the upper corner of its
\* patch at the level of the request, and its extent along the interface,
\* shifted back to level indexLevelUse, is the extent of its merged segment
\* (mirrored for the second patch where the orientation is reversed): the
\* right shift has lost no bit.
WellFormedBoxes ==
    (/\ Returned /\ dim \in {2, 3}
     /\ AlignedBoxes(pre[bi.first.patch], bi.first.side)
     /\ AlignedBoxes(pre[bi.second.patch], bi.second.side)
     /\ SameExtentAlong) =>
        LET rf == Requests(refEltsFirst, dim)
            rs == Requests(refEltsSecond, dim)
        IN  /\ Len(rf) = Len(CoarserFirst) /\ Len(rs) = Len(CoarserSecond)
            /\ \A k \in 1..Len(rf) :
                  /\ WellFormedBox(rf[k], pre[bi.first.patch])
                  /\ \A n \in 1..(dim - 1) :
                        ShiftedBack(rf[k], SpanFirst[n])
                           = <<CoarserFirst[k][n], CoarserFirst[k][2 + n]>>
            /\ \A k \in 1..Len(rs) :
                  /\ WellFormedBox(rs[k], pre[bi.second.patch])
                  /\ \A n \in 1..(dim - 1) :
                        ShiftedBack(rs[k], SpanSecond[n]) = SegmentOnSecond(CoarserSecond[k], n)

\* a box for the second patch on a segment that is not the whole side, on
\* an axis with reversed orientation, at a level below indexLevelUse
WellFormedBoxesWitness ==
    /\ Returned /\ last = "general" /\ dim = 3
    /\ AlignedBoxes(pre[bi.first.patch], bi.first.side)
    /\ AlignedBoxes(pre[bi.second.patch], bi.second.side)
    /\ SameExtentAlong
    /\ Len(CoarserSecond) >= 1
    /\ ~At(bi.dirOrient, SpanFirst[1])
    /\ \E k \in 1..Len(CoarserSecond) :
          /\ Requests(refEltsSecond, dim)[k].level < TraceContext.Lu
          /\ CoarserSecond[k][1] > 0

----------------------------------------------------------------------------
(* C20 *)

\* the sides of the patches that the trees know
SidesOf(bases) == {ps \in (DOMAIN bases) \X (1..4) : ps[2] \in DOMAIN bases[ps[1]].sideBoxes}

\* the finest level of the boundary boxes of the bases
FinestLevel(bases) ==
    MaxOf({0} \cup UNION {{getBoxesOnSide(bases[ps[1]], ps[2])[i].level :
                                 i \in 1..Len(getBoxesOnSide(bases[ps[1]], ps[2]))} :
                            ps \in SidesOf(bases)})

\* the boundary level of patch p on side s at cell v of level R
LevelOn(bases, p, s, v, R) ==
    LET bas == bases[p]
        bx  == getBoxesOnSide(bas, s)
        t   == TangAxes(2, direction(s))[1]
    IN  MaxOf({0} \cup {bx[i].level : i \in {i \in 1..Len(bx) :
                                               HoldsOn(bx[i], bas.maxInsLevel, t, v, R)}})

\* no point of a side of a patch has a lower boundary level in bases2 than
\* in bases1
NoLevelLowered(bases1, bases2) ==
    \A ps \in SidesOf(bases1) :
        LET R == bases2[ps[1]].maxInsLevel
            t == TangAxes(2, direction(ps[2]))[1]
        IN  \A v \in 0..(CellsAlong(bases2[ps[1]], t, R) - 1) :
               LevelOn(bases1, ps[1], ps[2], v, R) <= LevelOn(bases2, ps[1], ps[2], v, R)

\* a call for any interface of the topology would return false
NoChangeLeft ==
    \A i \in 1..Len(Topology) : ~repairInterfaceFindElements(2, Topology[i], m_bases).changed

\* the parts of C20: no call lowers a level or raises one above the finest
\* level there is
LevelsKept ==
    [][NoLevelLowered(m_bases, m_bases') /\ FinestLevel(m_bases') <= FinestLevel(m_bases)]_vars

\* from some call on every call returns false
PassWithoutChange == <>[](last # "none" /\ ~changed)

\* when no call would change anything, every interface conforms
ConformingAtFixedPoint ==
    [](NoChangeLeft => \A i \in 1..Len(Topology) : Conforming(m_bases, Topology[i]))

\* C20 (multi-interface fixed point): when a caller repeats passes of
\* repairInterface over all interfaces of a topology, no call lowers the
\* boundary level of a point of a patch, no level rises above the finest
\* level present, the loop comes to a pass in which every call returns
\* false, and then every interface conforms.
MultiInterfaceFixedPoint ==
    /\ LevelsKept
    /\ PassWithoutChange
    /\ ConformingAtFixedPoint

----------------------------------------------------------------------------
(* C21 *)

\* the requests of a list as a set
RequestSet(elts) == {Requests(elts, 2)[k] : k \in 1..Len(Requests(elts, 2))}

\* what repairInterfaceFindElements<2> finds for the interface on the bases
\* as they were at the entry of the last call
GeneralAtEntry == repairInterfaceFindElements(2, bi, pre)

\* what repairInterface2d emits for the interface on these bases
SpecialAtEntry == EmitLoop2d(MergeKnots(EntryIntfc0, EntryIntfc1, 1, 1), 1, 0, <<>>, <<>>,
                             EntryContext2d)

\* the boundary boxes of the side lie one after the other from coordinate 0
\* to the end of the side
ContiguousBoxes(bas, side) ==
    LET t    == TangAxes(2, direction(side))[1]
        rows == SortByColumn0(KnotSpans(bas, side, t, bas.maxInsLevel))
    IN  /\ rows[1][1] = 0
        /\ \A i \in 1..(Len(rows) - 1) : rows[i][2] = rows[i + 1][1]
        /\ rows[Len(rows)][2] = Rescale(At(bas.upperCorner, t), bas.indexLevel, bas.maxInsLevel)

\* C21 (path equivalence in 2-D): on a 2-D interface whose boundary boxes
\* are level-aligned and contiguous from coordinate 0 on both sides, for
\* every pair of sides, both orientations and the dirMap that goes with
\* them, repairInterfaceFindElements<2> and repairInterface2d emit for each
\* patch the same requests (level, lower and upper corner), as many of them,
\* possibly in another order.
PathEquivalence2d ==
    (/\ Returned /\ dim = 2
     /\ AlignedBoxes(pre[bi.first.patch], bi.first.side)
     /\ AlignedBoxes(pre[bi.second.patch], bi.second.side)
     /\ ContiguousBoxes(pre[bi.first.patch], bi.first.side)
     /\ ContiguousBoxes(pre[bi.second.patch], bi.second.side)) =>
        /\ SpecialAtEntry.ok
        /\ last = "2d" => /\ refEltsFirst = SpecialAtEntry.first
                          /\ refEltsSecond = SpecialAtEntry.second
        /\ last = "general" => /\ refEltsFirst = GeneralAtEntry.first
                               /\ refEltsSecond = GeneralAtEntry.second
        /\ Len(GeneralAtEntry.first) = Len(SpecialAtEntry.first)
        /\ Len(GeneralAtEntry.second) = Len(SpecialAtEntry.second)
        /\ RequestSet(GeneralAtEntry.first) = RequestSet(SpecialAtEntry.first)
        /\ RequestSet(GeneralAtEntry.second) = RequestSet(SpecialAtEntry.second)

\* repairInterface2d has emitted two requests for the first side of an
\* interface with reversed orientation, which the general path finds in the
\* other order
PathEquivalence2dWitness ==
    /\ Returned /\ last = "2d" /\ dim = 2
    /\ ~EntryContext2d.orientPreserv
    /\ Len(Requests(refEltsFirst, 2)) = 2
    /\ GeneralAtEntry.first # refEltsFirst
    /\ RequestSet(GeneralAtEntry.first) = RequestSet(refEltsFirst)

----------------------------------------------------------------------------
(* C22 *)

\* the axis of the first side that dirMap maps to axis k of the second side
AxisFrom(b, k) == CHOOSE j \in 0..(Len(b.dirMap) - 1) : At(b.dirMap, j) = k

\* the interface declared the other way round: the sides exchanged, the
\* inverse permutation of the axes, the flip flags numbered by the axes of
\* the new first side
Swapped(b) ==
    [first     |-> b.second,
     second    |-> b.first,
     dirMap    |-> [k \in 1..Len(b.dirMap) |-> AxisFrom(b, k - 1)],
     dirOrient |-> [k \in 1..Len(b.dirMap) |-> At(b.dirOrient, AxisFrom(b, k - 1))]]

\* the requests of a list of the last call as a set
RequestsIn(elts) == {Requests(elts, dim)[k] : k \in 1..Len(Requests(elts, dim))}

\* what the routine of the last call emits for the swapped interface on the
\* bases as they were at the entry of the call
SwappedAtEntry ==
    LET sw   == Swapped(bi)
        bas0 == pre[sw.first.patch]
        bas1 == pre[sw.second.patch]
        cx   == Context2d(sw, bas0, bas1)
    IN  IF last = "2d"
        THEN EmitLoop2d(MergeKnots(Intfc0(sw, bas0, cx), Intfc1(sw, bas1, cx), 1, 1),
                        1, 0, <<>>, <<>>, cx)
        ELSE repairInterfaceFindElements(dim, sw, pre)

\* C22 (side-swap symmetry): on an interface whose two sides are equally
\* long, a call for the interface (A,B) and a call for the same interface
\* declared as (B,A), with the inverse permutation of the
\* axes and the flip flags re-indexed with it, emit the same requests
\* against each patch, each in the frame of that patch: what is emitted for
\* first() of the one is emitted for second() of the other.
\* the two sides are equally long on every axis along the interface, each
\* axis of the first patch compared with the axis dirMap pairs it with
EqualSides ==
    \A j \in 0..(dim - 1) :
        j # direction(bi.first.side) =>
            LET Lu == indexLevelUse(pre[bi.first.patch], pre[bi.second.patch])
            IN  Rescale(At(pre[bi.first.patch].upperCorner, j), pre[bi.first.patch].indexLevel, Lu)
                  = Rescale(At(pre[bi.second.patch].upperCorner, At(bi.dirMap, j)),
                            pre[bi.second.patch].indexLevel, Lu)

====
